---------------------------- MODULE Spec2Model ----------------------------
(***************************************************************************)
(* Ledger execution engine of neo-go: the native NEP-5 tokens (GAS, NEO),  *)
(* the native-contract dispatch and the block applier with its layered DAO.*)
(***************************************************************************)
EXTENDS Integers, Sequences, FiniteSets, TLC

(***************************************************************************)
(* Bounds of the model.                                                    *)
(***************************************************************************)
\* int64 is modelled as a two's-complement integer with values
\* -(Int64Max+1) .. Int64Max; additions wrap around as Go's int64 does.
Int64Max == 3
\* Initial supply minted by Initialize (30000000*factor for GAS, 100000000*factor
\* for NEO in the source), scaled to the modelled integer width.
GasInitialSupply == 2
NeoInitialSupply == 1
\* Steps (token operations, new interop contexts) explored per behaviour.
MaxOps == 2
\* Highest block index an interop context is created for.
MaxIndex == 2

\* Block applier: AddBlock calls and transactions per behaviour.
MaxBlocks == 2
MaxTxs == 2
\* Native dispatch: items on the stack a script has built.
MaxStack == 3

\* Native state across restarts: restarts of the process per behaviour.
MaxRestarts == 2
\* Governance: the longest standby list, and the committee sizes that
\* ValidatorsCount keeps a tally for (state.MaxValidatorsVoted in the source).
MaxStandby == 2
MaxValidatorsVoted == 2
\* Multisig check: the longest list of public keys.
MaxSigKeys == 3
\* NEP-5 transfer logs: bytes of an account hash (util.Uint160Size, scaled down).
Uint160Size == 2
\* the entries of a full page of a transfer log (128 in the code)
nep5TransferBatchSize == 2
\* transfers logged for one account
MaxTransfers == 3
\* PutStorageItem and DeleteStorageItem calls of a behaviour
MaxStorageOps == 3
\* Manifest containers: Restrict and Add calls per behaviour.
MaxContainerOps == 4
\* Interop tables: the highest interop id, and the entries of a table.
MaxInteropId == 3
MaxInterops == 3
\* Unspent coins: transactions of a block.
MaxBlockTxs == 2
\* Layered store: Put and Delete calls per behaviour, and DAOs stacked on a store.
MaxStoreOps == 3
MaxLayers == 2

Nil == "nil"
\* ic.block == nil
NoBlock == -1
\* the value standing for "no STAccount record under this key"
NoAccount == [exists |-> FALSE, gas |-> 0, neo |-> 0, height |-> 0]
StandbyHash == "standby"
Hashes == {StandbyHash, "alice", "bob"}
Tokens == {"GAS", "NEO"}
\* amounts passed to mint, burn and transfer: negative, zero, one, the largest int64
Amounts == {-1, 0, 1, Int64Max}
Blocks == {NoBlock} \cup (1 .. MaxIndex)

VARIABLES
    accounts,       \* dao: STAccount records, hash -> account or NoAccount
    totalSupply,    \* nep5TokenNative.totalSupply of each native token
    notifications,  \* interopContext.notifications
    block,          \* interopContext.block: Nil or the block's Index
    last,           \* the operation executed last and its arguments
    ret,            \* how it ended: "ok", "err" (error / false) or "panic"
    reads,          \* account records the last operation read
    writes,         \* account records the last operation wrote
    nops            \* steps taken so far

VARIABLES
    store,          \* the persistent store: key -> [present, val]
    height,         \* current block height
    contracts,      \* NativeContracts.Contracts, names in slice order
    regOrder,       \* the natives in the order they were registered
    pc,             \* applier position: setup, idle, txs, hooks, flush
    cur,            \* the block given to the last AddBlock: [index, ntx]
    txi,            \* transactions of cur applied so far
    dao,            \* the DAO layers above the store, innermost last
    hookLog,        \* OnPersist calls made for cur
    hooki,          \* natives whose OnPersist was called for cur
    blocksChan,     \* testNative.blocks, a channel of capacity 1
    snap,           \* the store as it was when AddBlock(cur) started
    outcome,        \* of the last AddBlock: none, accepted, rejected
    failedAt,       \* the step that rejected it
    lastTx,         \* the transaction applied last
    retried,        \* the flush of cur failed once
    nblocks,        \* AddBlock calls so far
    ntxs            \* transactions of all blocks given to AddBlock so far

\* Native dispatch (one VM run of a script that reaches a native's syscall)
VARIABLES
    npc,            \* "off", "idle", "loaded", "syscalled" or "done"
    script,         \* the script loaded: its hash and the stack it has built
    estack,         \* evaluation stack of the VM, top first
    vmstate,        \* "NONE", "HALT" or "FAULT"
    verr,           \* the error the syscall handler returned, "" if none
    inst,           \* the native whose syscall ran
    handlerLog      \* native methods run: <<[c, name, args], ...>>

\* Native-contract state kept in the store, and the process that loads it
VARIABLES
    nativeState,    \* dao: STNativeContract records, token -> [present, data]
    validators,     \* dao: STValidator records, public key -> record or NoValidator
    standby,        \* GetStandByValidators(): the configured list of public keys
    started,        \* natives whose Initialize has run since the process started
    multisig,       \* the redeem script the initial supply was last minted to
    vcount,         \* dao: the ValidatorsCount record, tallies per committee size
    gcall,          \* the last governance call: its arguments and what it returned
    savedSupply,    \* history: totalSupply as it was when nativeState was last put
    minted,         \* history: initial-supply mints made by Initialize, per token
    nstarts         \* process restarts so far

\* Reads and writes of a DAO over a backend store
VARIABLES
    oplog,          \* history: the Put and Delete calls made on the DAO, in order
    got,            \* the last GetAndDecode: its key and what it returned
    pres            \* the last Persist: the count and the error it returned

\* Unspent coins and the inputs of a block's transactions
VARIABLES
    coins,          \* dao: STCoin records, previous hash -> states of its outputs
    anchor,         \* dao: the current-block anchor (SYSCurrentBlock), an index
    ublock,         \* the block given to the applier last: the inputs of its txs
    ures            \* what the applier did with it: none, accepted, rejected

\* NEP-5 transfer logs
VARIABLES
    tstore,         \* dao.store under the STNEP5Transfers prefix: key -> page
    tcall           \* the last transfer-log call: op, acc, index, key, lg

\* Manifest containers
VARIABLES
    cont,           \* the Container: Type and Value
    chist,          \* the Restrict and Add calls on it since NewContainer
    cres            \* the last UnmarshalJSON into a new container: data, err, c

\* Contract manifests
VARIABLES
    mfst,           \* the Manifest m
    mres            \* the last UnmarshalJSON of its JSON into a NewManifest: err, m

\* Interop tables
VARIABLES
    nameid,         \* vm.InteropNameToID: the id of every interop name
    itable,         \* an interop table ([]interopedFunction)
    istage,         \* declared (before init) or initialised
    ires            \* the last lookup in the table: id, found, Func, Price

\* Typed getters of the DAO
VARIABLES
    estore,         \* dao.store: what is under the key of every entity
    eres            \* the last getter call: getter, raw, serr, err, val

\* Transactions that fault
VARIABLES
    pstore,         \* the pages of the transfer logs: key bytes -> entries
    pnext,          \* per account: the page index its next transfer goes to
    psent,          \* per account: the transfers logged for it, in order
    pcall           \* the last AppendNEP5Transfer call and what it returned

VARIABLES
    sstore,         \* the store under STStorage: key bytes -> storage item
    sexpect,        \* per (script hash, user key): the item last put and not deleted since
    snops           \* PutStorageItem and DeleteStorageItem calls so far

VARIABLES
    dres            \* the last double-spend or double-claim check: inputs and answer

VARIABLES
    nep5Balances,   \* STNEP5Balances: per account, the tracked balance of every token
    bres            \* the last balanceOf call: token, account and returned balance

VARIABLES
    faulted         \* pending: a transaction faulted since the start; supply: the
                    \* totalSupply of every token when the first of them began

tokVars == <<accounts, totalSupply, notifications, block, last, ret, reads, writes, nops>>
blkVars == <<store, height, contracts, regOrder, pc, cur, txi, dao, hookLog, hooki,
             blocksChan, snap, outcome, failedAt, lastTx, retried, nblocks, ntxs>>
natVars == <<npc, script, estack, vmstate, verr, inst, handlerLog>>
govVars == <<nativeState, validators, standby, started, multisig, vcount, gcall,
             savedSupply, minted, nstarts>>
stoVars == <<oplog, got, pres>>
utxoVars == <<coins, anchor, ublock, ures>>
tlogVars == <<tstore, tcall>>
contVars == <<cont, chist, cres>>
mfstVars == <<mfst, mres>>
iopVars == <<nameid, itable, istage, ires>>
getVars == <<estore, eres>>
auxVars == <<utxoVars, tlogVars, contVars, mfstVars, iopVars, getVars>>
\* the token state outside the DAO
faultVars == <<faulted>>
\* the NEP-5 balance records of the DAO and the last balanceOf call
balVars == <<nep5Balances, bres>>
dblVars == <<dres>>
stgVars == <<sstore, sexpect, snops>>
plogVars == <<pstore, pnext, psent, pcall>>
lateVars == <<faultVars, balVars, dblVars, stgVars, plogVars>>
vars == <<tokVars, blkVars, natVars, govVars, stoVars, auxVars, lateVars>>

(***************************************************************************)
(* int64 arithmetic.                                                       *)
(***************************************************************************)
Wrap(x) == ((x + Int64Max + 1) % (2 * (Int64Max + 1))) - (Int64Max + 1)

(***************************************************************************)
(* DAO accessors for accounts.                                             *)
(***************************************************************************)
NewAccount == [exists |-> TRUE, gas |-> 0, neo |-> 0, height |-> 0]

GetAccountStateOrNew(st, h) ==
    IF ~st.accounts[h].exists THEN NewAccount ELSE st.accounts[h]

\* the read of GetAccountStateOrNew, as seen by the store
ReadAccount(st, h) == [st EXCEPT !.reads = @ \cup {h}]

PutAccountState(st, h, acc) ==
    [st EXCEPT !.accounts[h] = acc, !.writes = @ \cup {h}]

(***************************************************************************)
(* Blockchainer.CalculateClaimable: gas generated by `value` NEO between   *)
(* two heights; cerr is the error the chain may return.                      *)
(***************************************************************************)
CalculateClaimable(value, startHeight, endHeight, cerr) ==
    [err |-> cerr, amount |-> Wrap(value * (endHeight - startHeight))]

(***************************************************************************)
(* nep5TokenNative and the two natives built on it.                        *)
(***************************************************************************)
emitTransfer(st, c, from, to, amount) ==
    [st EXCEPT !.notifications =
        Append(@, [ScriptHash |-> c, name |-> "Transfer",
                   from |-> from, to |-> to, amount |-> amount])]

\* increaseBalance without the check for insufficient funds
gasNative_increaseBalance_noCheck(st, acc, amount) ==
    IF amount = 0 THEN [status |-> "ok", st |-> st, acc |-> acc]
    ELSE [status |-> "ok", st |-> st, acc |-> [acc EXCEPT !.gas = Wrap(@ + amount)]]

gasNative_increaseBalance(st, acc, amount) ==
    IF amount = 0 THEN [status |-> "ok", st |-> st, acc |-> acc]
    ELSE IF amount < 0 /\ acc.gas < Wrap(-amount)
         THEN [status |-> "err", st |-> st, acc |-> acc]
         ELSE [status |-> "ok", st |-> st,
               acc |-> [acc EXCEPT !.gas = Wrap(@ + amount)]]

\* mint that leaves totalSupply as it was
nep5_mint_noSupply(st, c, h, amount, inc) ==
    IF amount < 0 THEN [status |-> "panic", st |-> st]
    ELSE IF amount = 0 THEN [status |-> "ok", st |-> st]
    ELSE IF inc.status # "ok" THEN [status |-> "panic", st |-> inc.st]
         ELSE [status |-> "ok",
               st |-> emitTransfer(PutAccountState(inc.st, h, inc.acc), c, Nil, h, amount)]

\* nep5TokenNative.mint, with `inc` the outcome of the token's incBalance hook
\* on the account of h (evaluated only when the amount is positive)
nep5_mint(st, c, h, amount, inc) ==
    IF amount < 0 THEN [status |-> "panic", st |-> st]
    ELSE IF amount = 0 THEN [status |-> "ok", st |-> st]
    ELSE IF inc.status # "ok" THEN [status |-> "panic", st |-> inc.st]
         ELSE LET st2 == PutAccountState(inc.st, h, inc.acc)
                  st3 == [st2 EXCEPT !.totalSupply[c] = Wrap(@ + amount)]
              IN  [status |-> "ok", st |-> emitTransfer(st3, c, Nil, h, amount)]

\* gasNative.mint: the template with g.incBalance = g.increaseBalance
gasNative_mint(st, h, amount) ==
    nep5_mint(st, "GAS", h, amount,
              gasNative_increaseBalance(ReadAccount(st, h),
                                        GetAccountStateOrNew(st, h), amount))

distributeGas(st, blk, cerr, h, acc) ==
    IF blk = NoBlock THEN [status |-> "ok", st |-> st, acc |-> acc]
    ELSE LET c == CalculateClaimable(acc.neo, acc.height, blk, cerr)
         IN  IF c.err THEN [status |-> "err", st |-> st, acc |-> acc]
             ELSE LET m == gasNative_mint(st, h, c.amount)
                  IN  [status |-> m.status, st |-> m.st,
                       acc |-> [acc EXCEPT !.height = blk]]

neoNative_increaseBalance(st, blk, cerr, h, acc, amount) ==
    IF amount = 0 THEN [status |-> "ok", st |-> st, acc |-> acc]
    ELSE IF amount < 0 /\ acc.neo < Wrap(-amount)
         THEN [status |-> "err", st |-> st, acc |-> acc]
         ELSE LET d == distributeGas(st, blk, cerr, h, acc)
              IN  IF d.status # "ok" THEN d
                  ELSE [status |-> "ok", st |-> d.st,
                        acc |-> [d.acc EXCEPT !.neo = Wrap(@ + amount)]]

\* nep5TokenNative.incBalance: the hook each native installs
incBalance(c, st, blk, cerr, h, acc, amount) ==
    IF c = "GAS" THEN gasNative_increaseBalance(st, acc, amount)
    ELSE neoNative_increaseBalance(st, blk, cerr, h, acc, amount)

mint(st, blk, cerr, c, h, amount) ==
    nep5_mint(st, c, h, amount,
              incBalance(c, ReadAccount(st, h), blk, cerr, h,
                         GetAccountStateOrNew(st, h), amount))

burn(st, blk, cerr, c, h, amount) ==
    IF amount < 0 THEN [status |-> "panic", st |-> st]
    ELSE IF amount = 0 THEN [status |-> "ok", st |-> st]
    ELSE LET acc == GetAccountStateOrNew(st, h)
             r == incBalance(c, ReadAccount(st, h), blk, cerr, h, acc, Wrap(-amount))
         IN  IF r.status # "ok" THEN [status |-> "panic", st |-> r.st]
             ELSE LET st2 == PutAccountState(r.st, h, r.acc)
                      st3 == [st2 EXCEPT !.totalSupply[c] = Wrap(@ - amount)]
                  IN  [status |-> "ok", st |-> emitTransfer(st3, c, h, Nil, amount)]

\* the second half of transfer: the update of the receiving account
transferTo(st, blk, cerr, c, from, to, amount) ==
    LET accTo == GetAccountStateOrNew(st, to)
        r == incBalance(c, ReadAccount(st, to), blk, cerr, to, accTo, amount)
    IN  IF r.status # "ok" THEN [status |-> r.status, st |-> r.st]
        ELSE [status |-> "ok", st |-> PutAccountState(r.st, to, r.acc)]

\* transfer without the check of the amount's sign
transfer_noSignCheck(st, blk, cerr, c, from, to, amount) ==
    LET accFrom == GetAccountStateOrNew(st, from)
        isEmpty == (from = to) \/ amount = 0
        inc == IF isEmpty THEN 0 ELSE amount
        r == incBalance(c, ReadAccount(st, from), blk, cerr[1], from, accFrom, inc)
    IN  IF r.status # "ok" THEN [status |-> r.status, st |-> r.st]
        ELSE LET st2 == PutAccountState(r.st, from, r.acc)
                 t == IF isEmpty THEN [status |-> "ok", st |-> st2]
                      ELSE transferTo(st2, blk, cerr[2], c, from, to, amount)
             IN  IF t.status # "ok" THEN t
                 ELSE [status |-> "ok",
                       st |-> emitTransfer(t.st, c, from, to, amount)]

\* transfer that does not collapse an empty transfer to a zero delta
transfer_noEmptyCase(st, blk, cerr, c, from, to, amount) ==
    IF amount < 0 THEN [status |-> "err", st |-> st]
    ELSE LET accFrom == GetAccountStateOrNew(st, from)
             r == incBalance(c, ReadAccount(st, from), blk, cerr[1], from, accFrom, amount)
         IN  IF r.status # "ok" THEN [status |-> r.status, st |-> r.st]
             ELSE LET st2 == PutAccountState(r.st, from, r.acc)
                      t == transferTo(st2, blk, cerr[2], c, from, to, amount)
                  IN  IF t.status # "ok" THEN t
                      ELSE [status |-> "ok",
                            st |-> emitTransfer(t.st, c, from, to, amount)]

\* nep5TokenNative.transfer; cerr = <<e1, e2>>: whether CalculateClaimable
\* fails in the update of the sending / of the receiving account
transfer(st, blk, cerr, c, from, to, amount) ==
    IF amount < 0 THEN [status |-> "err", st |-> st]
    ELSE LET accFrom == GetAccountStateOrNew(st, from)
             isEmpty == (from = to) \/ amount = 0
             inc == IF isEmpty THEN 0 ELSE amount
             r == incBalance(c, ReadAccount(st, from), blk, cerr[1], from, accFrom, inc)
         IN  IF r.status # "ok" THEN [status |-> r.status, st |-> r.st]
             ELSE LET st2 == PutAccountState(r.st, from, r.acc)
                      t == IF isEmpty THEN [status |-> "ok", st |-> st2]
                           ELSE transferTo(st2, blk, cerr[2], c, from, to, amount)
                  IN  IF t.status # "ok" THEN t
                      ELSE [status |-> "ok",
                            st |-> emitTransfer(t.st, c, from, to, amount)]

(***************************************************************************)
(* Initialize of both natives on an empty store (ic.block is nil there).   *)
(***************************************************************************)
EmptyState ==
    [accounts |-> [h \in Hashes |-> NoAccount],
     totalSupply |-> [c \in Tokens |-> 0],
     notifications |-> <<>>, reads |-> {}, writes |-> {}]

Initialize(st, c) ==
    mint(st, NoBlock, FALSE, c, StandbyHash,
         IF c = "GAS" THEN GasInitialSupply ELSE NeoInitialSupply).st

Genesis == Initialize(Initialize(EmptyState, "GAS"), "NEO")

(***************************************************************************)
(* Actions of the token specification.                                     *)
(***************************************************************************)
Cur == [accounts |-> accounts, totalSupply |-> totalSupply,
        notifications |-> notifications, reads |-> {}, writes |-> {}]

Commit(r, op) ==
    /\ accounts' = r.st.accounts
    /\ totalSupply' = r.st.totalSupply
    /\ notifications' = r.st.notifications
    /\ reads' = r.st.reads
    /\ writes' = r.st.writes
    /\ ret' = r.status
    /\ last' = op
    /\ nops' = nops + 1
    /\ UNCHANGED block
    /\ UNCHANGED <<blkVars, natVars, govVars, stoVars, auxVars, lateVars>>

\* newInteropContext: a context for a block (or none), with no notifications
NewContext(b) ==
    /\ nops < MaxOps
    /\ b # block
    /\ b # NoBlock => b > block
    /\ block' = b
    /\ notifications' = <<>>
    /\ nops' = nops + 1
    /\ UNCHANGED <<accounts, totalSupply, last, ret, reads, writes>>
    /\ UNCHANGED <<blkVars, natVars, govVars, stoVars, auxVars, lateVars>>

\* nep5TokenNative.Transfer: the NEP-5 method, false on error
Transfer(c, from, to, amount, cerr) ==
    /\ nops < MaxOps
    /\ Commit(transfer(Cur, block, cerr, c, from, to, amount),
              [op |-> "transfer", c |-> c, from |-> from, to |-> to, amount |-> amount])

Mint(c, h, amount, cerr) ==
    /\ nops < MaxOps
    /\ Commit(mint(Cur, block, cerr, c, h, amount),
              [op |-> "mint", c |-> c, from |-> Nil, to |-> h, amount |-> amount])

Burn(c, h, amount, cerr) ==
    /\ nops < MaxOps
    /\ Commit(burn(Cur, block, cerr, c, h, amount),
              [op |-> "burn", c |-> c, from |-> h, to |-> Nil, amount |-> amount])

TokInit ==
    /\ accounts = Genesis.accounts
    /\ totalSupply = Genesis.totalSupply
    /\ notifications = <<>>
    /\ block = NoBlock
    /\ last = [op |-> "init", c |-> Nil, from |-> Nil, to |-> Nil, amount |-> 0]
    /\ ret = "ok"
    /\ reads = {}
    /\ writes = {}
    /\ nops = 0

\* the outcomes of CalculateClaimable to tell apart: it is called only for
\* NEO inside a block
ClaimErrors(c) == IF c = "NEO" /\ block # NoBlock THEN BOOLEAN ELSE {FALSE}

Next ==
    \/ \E b \in Blocks : NewContext(b)
    \/ \E c \in Tokens, f \in Hashes, t \in Hashes, a \in Amounts :
          \E cerr \in ClaimErrors(c) \X ClaimErrors(c) : Transfer(c, f, t, a, cerr)
    \/ \E c \in Tokens, h \in Hashes, a \in Amounts :
          \E cerr \in ClaimErrors(c) : Mint(c, h, a, cerr)
    \/ \E c \in Tokens, h \in Hashes, a \in Amounts :
          \E cerr \in ClaimErrors(c) : Burn(c, h, a, cerr)


(***************************************************************************)
(* The layered store: MemCached overlays above the persistent store.       *)
(***************************************************************************)
Natives == <<"GAS", "NEO", "Test">>
NativeNames == {Natives[i] : i \in 1 .. Len(Natives)}
NativeIndex(c) == CHOOSE i \in 1 .. Len(Natives) : Natives[i] = c

\* keys: <<prefix, id, sub-id>>
StorageKeys == {<<"STStorage", i, 0>> : i \in 1 .. 2}
NativeKey(c) == <<"STNativeContract", NativeIndex(c), 0>>
AerKey(i, j) == <<"STNotification", i, j>>
SYSCurrentBlock == <<"SYSCurrentBlock", 0, 0>>
Keys == StorageKeys
        \cup {NativeKey(c) : c \in NativeNames}
        \cup {AerKey(i, j) : i \in 1 .. MaxBlocks, j \in 1 .. MaxTxs}
        \cup {SYSCurrentBlock}

\* stored values: an integer, or an AppExecResult (state and notifications)
IntVal(n) == [v |-> n, vmstate |-> "", events |-> <<>>]
AerVal(state, events) == [v |-> 0, vmstate |-> state, events |-> events]
NotFound == [present |-> FALSE, val |-> IntVal(0)]
Found(val) == [present |-> TRUE, val |-> val]

NoEntry == [op |-> "none", val |-> IntVal(0)]
EmptyOverlay == [k \in Keys |-> NoEntry]

\* a Get that falls through a deleted key to the layers below
DaoGet_deleteFallsThrough(d, st, k) ==
    LET hits == {i \in 1 .. Len(d) : d[i][k].op = "put"}
    IN  IF hits = {} THEN st[k]
        ELSE LET i == CHOOSE x \in hits : \A y \in hits : y <= x
             IN  Found(d[i][k].val)

\* MemCachedStore.Get through every layer of d, then the persistent store
DaoGet(d, st, k) ==
    LET hits == {i \in 1 .. Len(d) : d[i][k].op # "none"}
    IN  IF hits = {} THEN st[k]
        ELSE LET i == CHOOSE x \in hits : \A y \in hits : y <= x
             IN  IF d[i][k].op = "put" THEN Found(d[i][k].val) ELSE NotFound

\* MemCachedStore.Put / Delete: on the innermost layer
DaoPut(d, k, val) == [d EXCEPT ![Len(d)][k] = [op |-> "put", val |-> val]]
DaoDelete(d, k) == [d EXCEPT ![Len(d)][k] = [op |-> "del", val |-> IntVal(0)]]

\* MemCachedStore.Persist of a layer into the layer below it
PersistInto(top, lower) ==
    [k \in Keys |-> IF top[k].op = "none" THEN lower[k] ELSE top[k]]

\* a Persist into the store that writes the puts and forgets the deletes
PersistIntoStore_putsOnly(top, st) ==
    [k \in Keys |-> IF top[k].op = "put" THEN Found(top[k].val) ELSE st[k]]

\* MemCachedStore.Persist of a layer into the persistent store
PersistIntoStore(top, st) ==
    [k \in Keys |-> IF top[k].op = "put" THEN Found(top[k].val)
                    ELSE IF top[k].op = "del" THEN NotFound
                    ELSE st[k]]

\* dao.Persist that returns without writing the layer's batch
dao_Persist_dropped(d) == SubSeq(d, 1, Len(d) - 1)

\* dao.Persist of the innermost layer of d (d has a layer below it)
dao_Persist(d) ==
    [i \in 1 .. Len(d) - 1 |->
        IF i = Len(d) - 1 THEN PersistInto(d[Len(d)], d[i]) ELSE d[i]]

(***************************************************************************)
(* Native contracts: registration and the OnPersist hooks.                 *)
(***************************************************************************)
\* NativeContracts.Add with the contract at the front of the slice
Add_atFront(cs, c) == <<c>> \o cs

Add(cs, c) == Append(cs, c)

\* a hook that stores the native's state in the persistent store itself
nativeOnPersist_intoStore(w, c) ==
    [err |-> FALSE,
     w |-> [w EXCEPT !.store[NativeKey(c)] = Found(IntVal(totalSupply[c]))]]

\* gasNative.onPersist / neoNative.onPersist: PutNativeContractState(hash, serializeState())
nativeOnPersist(w, c) ==
    [err |-> FALSE,
     w |-> [w EXCEPT !.dao = DaoPut(@, NativeKey(c), IntVal(totalSupply[c]))]]

\* testNative.onPersist: a non-blocking send of the block index
testNative_onPersist(w, index) ==
    IF Len(w.chan) < 1
    THEN [err |-> FALSE, w |-> [w EXCEPT !.chan = Append(@, index)]]
    ELSE [err |-> TRUE, w |-> w]

OnPersist(w, c, index) ==
    IF c = "Test" THEN testNative_onPersist(w, index) ELSE nativeOnPersist(w, c)

(***************************************************************************)
(* Interop contexts and transactions.                                      *)
(***************************************************************************)
\* newInteropContext: a cached DAO over d and an empty notification list
newInteropContext(d) == [dao |-> Append(d, EmptyOverlay), notifications |-> <<>>]

\* application scripts: write or delete one storage item, notify once,
\* then end in HALT or FAULT
Scripts == [key : StorageKeys, del : BOOLEAN, fault : BOOLEAN]

\* the run of a script in the context ic, up to its last instruction
RunScript(ic, sc) ==
    [dao |-> IF sc.del THEN DaoDelete(ic.dao, sc.key)
             ELSE DaoPut(ic.dao, sc.key, IntVal(1)),
     notifications |-> Append(ic.notifications, sc.key[2])]

\* the block-level layers of an interop context's DAO
BlockLayers(icdao, n) == SubSeq(icdao, 1, n)

\* step 2e of the applier for the transaction at position j of block i
ApplyInvocation(d, i, j, sc) ==
    LET ic == RunScript(newInteropContext(d), sc)
        n == Len(d)
    IN  IF sc.fault
        THEN DaoPut(BlockLayers(ic.dao, n), AerKey(i, j), AerVal("FAULT", <<>>))
        ELSE DaoPut(BlockLayers(dao_Persist(ic.dao), n), AerKey(i, j),
                    AerVal("HALT", ic.notifications))

\* the applier's pre-condition on the index of a block, with > for =
blockAccepted_anyLater(b, h) == b.index > h

\* pre-condition: b.index == currentBlockHeight + 1
blockAccepted(b, h) == b.index = h + 1

(***************************************************************************)
(* Actions of the block applier.                                           *)
(***************************************************************************)
NoTx == [block |-> 0, pos |-> 0, kind |-> "none", state |-> "",
         script |-> [key |-> <<"STStorage", 1, 0>>, del |-> FALSE, fault |-> FALSE]]

BlkIdle ==
    /\ store = [k \in Keys |-> NotFound]
    /\ height = 0
    /\ contracts = <<>>
    /\ regOrder = <<>>
    /\ pc = "off"
    /\ cur = [index |-> 0, ntx |-> 0]
    /\ txi = 0
    /\ dao = <<>>
    /\ hookLog = <<>>
    /\ hooki = 0
    /\ blocksChan = <<>>
    /\ snap = [k \in Keys |-> NotFound]
    /\ outcome = "none"
    /\ failedAt = "none"
    /\ lastTx = NoTx
    /\ retried = FALSE
    /\ nblocks = 0
    /\ ntxs = 0

BlkInit ==
    /\ store = [k \in Keys |-> IF k = SYSCurrentBlock THEN Found(IntVal(0)) ELSE NotFound]
    /\ height = 0
    /\ contracts = <<>>
    /\ regOrder = <<>>
    /\ pc = "setup"
    /\ cur = [index |-> 0, ntx |-> 0]
    /\ txi = 0
    /\ dao = <<>>
    /\ hookLog = <<>>
    /\ hooki = 0
    /\ blocksChan = <<>>
    /\ snap = store
    /\ outcome = "none"
    /\ failedAt = "none"
    /\ lastTx = NoTx
    /\ retried = FALSE
    /\ nblocks = 0
    /\ ntxs = 0

\* RegisterNative, before the first block
RegisterNative(c) ==
    /\ UNCHANGED <<tokVars, natVars, govVars, stoVars, auxVars, lateVars>>
    /\ pc = "setup"
    /\ \A i \in 1 .. Len(regOrder) : regOrder[i] # c
    /\ contracts' = Add(contracts, c)
    /\ regOrder' = Append(regOrder, c)
    /\ UNCHANGED <<store, height, pc, cur, txi, dao, hookLog, hooki, blocksChan,
                   snap, outcome, failedAt, lastTx, retried, nblocks, ntxs>>

StartChain ==
    /\ UNCHANGED <<tokVars, natVars, govVars, stoVars, auxVars, lateVars>>
    /\ pc = "setup"
    /\ Len(regOrder) = Len(Natives)
    /\ pc' = "idle"
    /\ UNCHANGED <<store, height, contracts, regOrder, cur, txi, dao, hookLog, hooki,
                   blocksChan, snap, outcome, failedAt, lastTx, retried, nblocks, ntxs>>

\* the block is given up: its DAO is dropped
Reject(step) ==
    /\ pc' = "idle"
    /\ dao' = <<>>
    /\ outcome' = "rejected"
    /\ failedAt' = step
    /\ retried' = FALSE

\* AddBlock: the index check, then step 1 (the per-block DAO)
AddBlock(b) ==
    /\ UNCHANGED <<tokVars, natVars, govVars, stoVars, auxVars, lateVars>>
    /\ pc = "idle"
    /\ nblocks < MaxBlocks
    /\ nblocks' = nblocks + 1
    /\ ntxs + b.ntx <= MaxTxs
    /\ ntxs' = ntxs + b.ntx
    /\ cur' = b
    /\ snap' = store
    /\ txi' = 0
    /\ hooki' = 0
    /\ hookLog' = <<>>
    /\ lastTx' = NoTx
    /\ IF blockAccepted(b, height)
       THEN /\ pc' = "txs"
            /\ dao' = <<EmptyOverlay>>
            /\ outcome' = "none"
            /\ failedAt' = "none"
            /\ retried' = FALSE
       ELSE Reject("index")
    /\ UNCHANGED <<store, height, contracts, regOrder, blocksChan>>

\* step 2 for one transaction
ApplyTx(kind, valid, sc) ==
    /\ UNCHANGED <<tokVars, natVars, govVars, stoVars, auxVars, lateVars>>
    /\ pc = "txs"
    /\ txi < cur.ntx
    /\ IF ~valid
       THEN /\ Reject("tx")
            /\ UNCHANGED <<txi, lastTx>>
       ELSE /\ txi' = txi + 1
            /\ dao' = IF kind = "invocation"
                      THEN ApplyInvocation(dao, cur.index, txi + 1, sc)
                      ELSE dao
            /\ lastTx' = [block |-> cur.index, pos |-> txi + 1, kind |-> kind,
                          state |-> IF kind # "invocation" THEN ""
                                    ELSE IF sc.fault THEN "FAULT" ELSE "HALT",
                          script |-> sc]
            /\ UNCHANGED <<pc, outcome, failedAt, retried>>
    /\ UNCHANGED <<store, height, contracts, regOrder, cur, hookLog, hooki,
                   blocksChan, snap, nblocks, ntxs>>

\* step 3: the transactions are done, the hooks start
StartHooks ==
    /\ UNCHANGED <<tokVars, natVars, govVars, stoVars, auxVars, lateVars>>
    /\ pc = "txs"
    /\ txi = cur.ntx
    /\ pc' = "hooks"
    /\ UNCHANGED <<store, height, contracts, regOrder, cur, txi, dao, hookLog, hooki,
                   blocksChan, snap, outcome, failedAt, lastTx, retried, nblocks, ntxs>>

\* step 3 for one native
OnPersistStep ==
    /\ UNCHANGED <<tokVars, natVars, govVars, stoVars, auxVars, lateVars>>
    /\ pc = "hooks"
    /\ hooki < Len(contracts)
    /\ LET c == contracts[hooki + 1]
           r == OnPersist([store |-> store, dao |-> dao, chan |-> blocksChan],
                          c, cur.index)
       IN  /\ hookLog' = Append(hookLog, [c |-> c, index |-> cur.index, txs |-> txi])
           /\ hooki' = hooki + 1
           /\ blocksChan' = r.w.chan
           /\ store' = r.w.store
           /\ IF r.err
              THEN Reject("hook")
              ELSE /\ dao' = r.w.dao
                   /\ UNCHANGED <<pc, outcome, failedAt, retried>>
    /\ UNCHANGED <<height, contracts, regOrder, cur, txi, snap, lastTx, nblocks, ntxs>>

\* step 4: the block record and the current-block anchor
WriteBlockRecord ==
    /\ UNCHANGED <<tokVars, natVars, govVars, stoVars, auxVars, lateVars>>
    /\ pc = "hooks"
    /\ hooki = Len(contracts)
    /\ dao' = DaoPut(dao, SYSCurrentBlock, IntVal(cur.index))
    /\ pc' = "flush"
    /\ UNCHANGED <<store, height, contracts, regOrder, cur, txi, hookLog, hooki,
                   blocksChan, snap, outcome, failedAt, lastTx, retried, nblocks, ntxs>>

\* step 5: the flush; a failed flush is retried once
Flush(perr) ==
    /\ UNCHANGED <<tokVars, natVars, govVars, stoVars, auxVars, lateVars>>
    /\ pc = "flush"
    /\ IF perr
       THEN /\ IF retried
               THEN Reject("flush")
               ELSE /\ retried' = TRUE
                    /\ UNCHANGED <<pc, dao, outcome, failedAt>>
            /\ UNCHANGED <<store, height>>
       ELSE /\ store' = PersistIntoStore(dao[1], store)
            /\ height' = cur.index
            /\ dao' = <<>>
            /\ pc' = "idle"
            /\ outcome' = "accepted"
            /\ retried' = FALSE
            /\ UNCHANGED failedAt
    /\ UNCHANGED <<contracts, regOrder, cur, txi, hookLog, hooki, blocksChan, snap,
                   lastTx, nblocks, ntxs>>

\* TestNativeContract_Invoke receiving from tn.blocks
ReceiveBlock ==
    /\ UNCHANGED <<tokVars, natVars, govVars, stoVars, auxVars, lateVars>>
    /\ pc = "idle"
    /\ blocksChan # <<>>
    /\ blocksChan' = Tail(blocksChan)
    /\ UNCHANGED <<store, height, contracts, regOrder, pc, cur, txi, dao, hookLog,
                   hooki, snap, outcome, failedAt, lastTx, retried, nblocks, ntxs>>

BlockInputs == [index : 0 .. MaxBlocks + 1, ntx : 0 .. MaxTxs]

BlockNext ==
    \/ \E c \in NativeNames : RegisterNative(c)
    \/ StartChain
    \/ \E b \in BlockInputs : AddBlock(b)
    \/ \E valid \in BOOLEAN : ApplyTx("miner", valid, NoTx.script)
    \/ \E sc \in Scripts : ApplyTx("invocation", TRUE, sc)
    \/ StartHooks
    \/ OnPersistStep
    \/ WriteBlockRecord
    \/ \E perr \in BOOLEAN : Flush(perr)
    \/ ReceiveBlock

(***************************************************************************)
(* Native dispatch: the syscall handler of a native contract, run by the   *)
(* VM on the evaluation stack.                                             *)
(***************************************************************************)
\* the natives that take part in dispatch, and the script hash of each
Dispatchable == {"Test", "GAS"}
NativeHash(c) == c
ScriptHashes == {NativeHash(c) : c \in Dispatchable} \cup {"app"}

\* stack items: byte arrays (method names) and arrays of integers
BytesItem(b) == [t |-> "ByteArray", s |-> b, a |-> <<>>, n |-> 0]
ArrayItem(xs) == [t |-> "Array", s |-> "", a |-> xs, n |-> 0]
IntItem(i) == [t |-> "Integer", s |-> "", a |-> <<>>, n |-> i]
NoItem == [t |-> "none", s |-> "", a |-> <<>>, n |-> 0]

\* NativeContract.Methods: the names AddMethod registered
Methods(c) ==
    IF c = "Test" THEN {"sum"}
    ELSE {"name", "symbol", "decimals", "balanceOf", "transfer", "getSysFeeAmount"}

\* m.Func(ic, args): testNative.sum and the argument-free NEP-5 methods
\* (scripts here call no method that takes accounts); [panic, val]
CallMethod(c, name, args) ==
    IF c = "Test" /\ name = "sum"
    THEN IF Len(args) < 2 THEN [panic |-> TRUE, val |-> NoItem]
         ELSE [panic |-> FALSE, val |-> IntItem(Wrap(args[1] + args[2]))]
    ELSE IF name = "symbol" THEN [panic |-> FALSE, val |-> BytesItem("gas")]
    ELSE IF name = "name" THEN [panic |-> FALSE, val |-> BytesItem("GAS")]
    ELSE IF name = "decimals" THEN [panic |-> FALSE, val |-> IntItem(8)]
    ELSE [panic |-> TRUE, val |-> NoItem]

\* the outcome of a handler on the VM v = [hash, estack, log]
Returned(v) == [err |-> "", v |-> v]
Failed(e, v) == [err |-> e, v |-> v]

\* the handler without the check of the calling script's hash
getNativeInterop_noHashCheck(c, v) ==
    IF v.estack = <<>> THEN Failed("panic", v)
    ELSE IF Head(v.estack).t # "ByteArray"
    THEN Failed("panic", [v EXCEPT !.estack = Tail(@)])
    ELSE IF Tail(v.estack) = <<>>
    THEN Failed("panic", [v EXCEPT !.estack = Tail(@)])
    ELSE LET name == Head(v.estack).s
             argsItem == Head(Tail(v.estack))
             v2 == [v EXCEPT !.estack = Tail(Tail(@))]
         IN  IF argsItem.t # "Array" THEN Failed("panic", v2)
             ELSE IF name \notin Methods(c) THEN Failed("method not found", v2)
             ELSE LET r == CallMethod(c, name, argsItem.a)
                      v3 == [v2 EXCEPT !.log = Append(@, [c |-> c, name |-> name,
                                                          args |-> argsItem.a])]
                  IN  IF r.panic THEN Failed("panic", v3)
                      ELSE Returned([v3 EXCEPT !.estack = <<r.val>> \o @])

\* the handler that returns without pushing the method's result
getNativeInterop_noPush(c, v) ==
    LET r == getNativeInterop_noHashCheck(c, v)
    IN  IF v.hash # NativeHash(c) THEN Failed("invalid hash", v)
        ELSE IF r.err # "" THEN r
        ELSE Returned([r.v EXCEPT !.estack = Tail(@)])

\* interopContext.getNativeInterop(c): the handler of the syscall of c
getNativeInterop(c, v) ==
    IF v.hash # NativeHash(c) THEN Failed("invalid hash", v)
    ELSE IF v.estack = <<>> THEN Failed("panic", v)
    ELSE IF Head(v.estack).t # "ByteArray"
    THEN Failed("panic", [v EXCEPT !.estack = Tail(@)])
    ELSE IF Tail(v.estack) = <<>>
    THEN Failed("panic", [v EXCEPT !.estack = Tail(@)])
    ELSE LET name == Head(v.estack).s
             argsItem == Head(Tail(v.estack))
             v2 == [v EXCEPT !.estack = Tail(Tail(@))]
         IN  IF argsItem.t # "Array" THEN Failed("panic", v2)
             ELSE IF name \notin Methods(c) THEN Failed("method not found", v2)
             ELSE LET r == CallMethod(c, name, argsItem.a)
                      v3 == [v2 EXCEPT !.log = Append(@, [c |-> c, name |-> name,
                                                          args |-> argsItem.a])]
                  IN  IF r.panic THEN Failed("panic", v3)
                      ELSE Returned([v3 EXCEPT !.estack = <<r.val>> \o @])

\* what scripts leave on the stack before the syscall
MethodNames == {"sum", "symbol", "nosuch"}
ArgArrays == {<<>>, <<1>>, <<1, 2>>, <<2, Int64Max>>}
Items == {BytesItem(b) : b \in MethodNames} \cup {ArrayItem(xs) : xs \in ArgArrays}
Stacks == UNION {[1 .. n -> Items] : n \in 0 .. MaxStack}

NatOff ==
    /\ npc = "off"
    /\ script = [hash |-> "app", stack |-> <<>>]
    /\ estack = <<>>
    /\ vmstate = "NONE"
    /\ verr = ""
    /\ inst = "Test"
    /\ handlerLog = <<>>

NatInit ==
    /\ npc = "idle"
    /\ script = [hash |-> "app", stack |-> <<>>]
    /\ estack = <<>>
    /\ vmstate = "NONE"
    /\ verr = ""
    /\ inst = "Test"
    /\ handlerLog = <<>>

\* a script with hash h has built the stack stk and is at a SYSCALL
LoadScript(h, stk) ==
    /\ npc = "idle"
    /\ script' = [hash |-> h, stack |-> stk]
    /\ estack' = stk
    /\ vmstate' = "NONE"
    /\ verr' = ""
    /\ handlerLog' = <<>>
    /\ npc' = "loaded"
    /\ UNCHANGED inst
    /\ UNCHANGED <<tokVars, blkVars, govVars, stoVars, auxVars, lateVars>>

\* SYSCALL of the native c: the VM runs the handler and faults on its error
Syscall(c) ==
    /\ npc = "loaded"
    /\ LET r == getNativeInterop(c, [hash |-> script.hash, estack |-> estack,
                                     log |-> handlerLog])
       IN  /\ estack' = r.v.estack
           /\ handlerLog' = r.v.log
           /\ verr' = r.err
           /\ vmstate' = IF r.err # "" THEN "FAULT" ELSE "NONE"
           /\ npc' = IF r.err # "" THEN "done" ELSE "syscalled"
    /\ inst' = c
    /\ UNCHANGED script
    /\ UNCHANGED <<tokVars, blkVars, govVars, stoVars, auxVars, lateVars>>

\* RET at the end of the script: no context is left, the VM halts
Ret ==
    /\ npc = "syscalled"
    /\ vmstate' = "HALT"
    /\ npc' = "done"
    /\ UNCHANGED <<script, estack, verr, inst, handlerLog>>
    /\ UNCHANGED <<tokVars, blkVars, govVars, stoVars, auxVars, lateVars>>

\* the VM is dropped; the next script gets a new one
Finish ==
    /\ npc = "done"
    /\ npc' = "idle"
    /\ script' = [hash |-> "app", stack |-> <<>>]
    /\ estack' = <<>>
    /\ vmstate' = "NONE"
    /\ verr' = ""
    /\ inst' = "Test"
    /\ handlerLog' = <<>>
    /\ UNCHANGED <<tokVars, blkVars, govVars, stoVars, auxVars, lateVars>>

NativeNext ==
    \/ \E h \in ScriptHashes, stk \in Stacks : LoadScript(h, stk)
    \/ \E c \in Dispatchable : Syscall(c)
    \/ Ret
    \/ Finish

(***************************************************************************)
(* Native-contract state in the store: Initialize, onPersist and restarts. *)
(***************************************************************************)
\* public keys, ordered as PublicKey.Cmp orders them
PubKeys == {1, 2, 3}
NoValidator == [exists |-> FALSE, registered |-> FALSE, votes |-> 0]
NoState == [present |-> FALSE, data |-> <<>>]
NoScript == [m |-> 0, vs |-> <<>>]
\* a ValidatorsCount that was never put: every tally is zero
NoCount == [i \in 1 .. MaxValidatorsVoted |-> 0]
NoCall == [op |-> "none", pk |-> 0, h |-> Nil, pubs |-> {}, witness |-> FALSE,
           enum |-> <<>>, out |-> <<>>, status |-> "none"]
\* standby validator lists a chain is configured with here
StandbyChoices == {<<1>>, <<2, 1>>, <<3, 1, 1>>}

\* emit.IntToBytes: the shortest little-endian two's-complement encoding, the
\* empty string for zero; a byte is modelled as a base-4 digit
IntToBytes(n) ==
    IF n = 0 THEN <<>>
    ELSE IF n >= -2 /\ n <= 1 THEN <<n % 4>>
    ELSE <<n % 4, (n \div 4) % 4>>

\* emit.BytesToInt: the inverse reading, the top digit carrying the sign
BytesToInt(b) ==
    IF Len(b) = 0 THEN 0
    ELSE IF Len(b) = 1 THEN (IF b[1] >= 2 THEN b[1] - 4 ELSE b[1])
    ELSE LET u == b[1] + 4 * b[2]
         IN  IF b[2] >= 2 THEN u - 16 ELSE u

serializeState(ts) == IntToBytes(ts)

\* initFromStore: totalSupply = BytesToInt(data).Int64()
initFromStore(data) == Wrap(BytesToInt(data))

GetNativeContractState(g, c) == g.nativeState[c]

PutNativeContractState(g, c, data) ==
    [g EXCEPT !.nativeState[c] = [present |-> TRUE, data |-> data],
              !.puts = @ \cup {c}]

\* the multisig redeem script of the standby validators and its hash
getStandbyValidatorsHash(vs) ==
    [h |-> StandbyHash, script |-> [m |-> Len(vs) \div 2 + 1, vs |-> vs]]

\* registerValidatorInternal that puts the new record whatever the store holds
registerValidatorInternal_overwrite(vals, pub) ==
    [vals EXCEPT ![pub] = [exists |-> TRUE, registered |-> FALSE, votes |-> 0]]

registerValidatorInternal(vals, pub) ==
    IF vals[pub].exists THEN vals
    ELSE [vals EXCEPT ![pub] = [exists |-> TRUE, registered |-> FALSE, votes |-> 0]]

\* the loop of neoNative.Initialize over the standby validators
registerStandby(vals, vs) ==
    LET f[i \in 0 .. Len(vs)] ==
            IF i = 0 THEN vals ELSE registerValidatorInternal(f[i - 1], vs[i])
    IN  f[Len(vs)]

\* Initialize that mints whether or not the store holds the native's state
native_Initialize_alwaysMint(g, c) ==
    LET sv == getStandbyValidatorsHash(g.standby)
        g2 == [g EXCEPT !.st = Initialize(g.st, c),
                        !.multisig = sv.script,
                        !.validators = IF c = "NEO" THEN registerStandby(@, sv.script.vs)
                                       ELSE @]
    IN  PutNativeContractState(g2, c, serializeState(g2.st.totalSupply[c]))

\* gasNative.Initialize and neoNative.Initialize
native_Initialize(g, c) ==
    LET s == GetNativeContractState(g, c)
    IN  IF s.present
        THEN [g EXCEPT !.st.totalSupply[c] = initFromStore(s.data)]
        ELSE LET sv == getStandbyValidatorsHash(g.standby)
                 g2 == [g EXCEPT !.st = Initialize(g.st, c),
                                 !.multisig = sv.script,
                                 !.validators =
                                     IF c = "NEO" THEN registerStandby(@, sv.script.vs)
                                     ELSE @]
             IN  PutNativeContractState(g2, c, serializeState(g2.st.totalSupply[c]))

\* gasNative.onPersist and neoNative.onPersist: the state is saved again
native_onPersist(g, c) ==
    PutNativeContractState(g, c, serializeState(g.st.totalSupply[c]))

GovCur == [st |-> Cur, nativeState |-> nativeState, validators |-> validators,
           standby |-> standby, multisig |-> multisig, puts |-> {}]

\* the natives are initialized and their state is in the store
GovOff ==
    /\ nativeState = [c \in Tokens |->
                        [present |-> TRUE, data |-> serializeState(Genesis.totalSupply[c])]]
    /\ validators = registerStandby([k \in PubKeys |-> NoValidator], <<1>>)
    /\ standby = <<1>>
    /\ started = Tokens
    /\ multisig = getStandbyValidatorsHash(<<1>>).script
    /\ vcount = NoCount
    /\ gcall = NoCall
    /\ savedSupply = Genesis.totalSupply
    /\ minted = [c \in Tokens |-> 1]
    /\ nstarts = 0

\* a new chain: an empty store and a process that has initialized nothing
GovInit ==
    /\ accounts = EmptyState.accounts
    /\ totalSupply = EmptyState.totalSupply
    /\ notifications = <<>>
    /\ block = NoBlock
    /\ last = [op |-> "init", c |-> Nil, from |-> Nil, to |-> Nil, amount |-> 0]
    /\ ret = "ok"
    /\ reads = {}
    /\ writes = {}
    /\ nops = 0
    /\ nativeState = [c \in Tokens |-> NoState]
    /\ validators = [k \in PubKeys |-> NoValidator]
    /\ standby \in StandbyChoices
    /\ started = {}
    /\ multisig = NoScript
    /\ vcount = NoCount
    /\ gcall = NoCall
    /\ savedSupply = [c \in Tokens |-> 0]
    /\ minted = [c \in Tokens |-> 0]
    /\ nstarts = 0

GovCommit(r) ==
    /\ accounts' = r.st.accounts
    /\ totalSupply' = r.st.totalSupply
    /\ notifications' = r.st.notifications
    /\ reads' = r.st.reads
    /\ writes' = r.st.writes
    /\ nativeState' = r.nativeState
    /\ validators' = r.validators
    /\ multisig' = r.multisig
    /\ savedSupply' = [t \in Tokens |->
                         IF t \in r.puts THEN r.st.totalSupply[t] ELSE savedSupply[t]]
    /\ minted' = [t \in Tokens |->
                    minted[t] + Cardinality({i \in Len(notifications) + 1 ..
                                                    Len(r.st.notifications) :
                                               /\ r.st.notifications[i].ScriptHash = t
                                               /\ r.st.notifications[i].from = Nil})]

\* the chain starts: Initialize of the native c
InitializeStep(c) ==
    /\ c \notin started
    /\ GovCommit(native_Initialize(GovCur, c))
    /\ started' = started \cup {c}
    /\ UNCHANGED <<block, last, ret, nops, standby, vcount, gcall, nstarts>>
    /\ UNCHANGED <<blkVars, natVars, stoVars, auxVars, lateVars>>

\* a block is persisted: onPersist of the native c
PersistState(c) ==
    /\ started = Tokens
    /\ GovCommit(native_onPersist(GovCur, c))
    /\ UNCHANGED <<block, last, ret, nops, standby, vcount, gcall, started, nstarts>>
    /\ UNCHANGED <<blkVars, natVars, stoVars, auxVars, lateVars>>

\* the process stops and starts again: memory is lost, the store is kept
Restart ==
    /\ nstarts < MaxRestarts
    /\ nstarts' = nstarts + 1
    /\ totalSupply' = [c \in Tokens |-> 0]
    /\ notifications' = <<>>
    /\ block' = NoBlock
    /\ started' = {}
    /\ UNCHANGED <<accounts, last, ret, reads, writes, nops>>
    /\ UNCHANGED <<nativeState, validators, standby, multisig, vcount, gcall, savedSupply,
                   minted>>
    /\ UNCHANGED <<blkVars, natVars, stoVars, auxVars, lateVars>>

GovNext ==
    \/ \E c \in Tokens : InitializeStep(c)
    \/ \E c \in Tokens : PersistState(c)
    \/ Restart
    \/ \E c \in Tokens, h \in {StandbyHash, "alice"}, a \in Amounts :
          started = Tokens /\ Mint(c, h, a, FALSE)

(***************************************************************************)
(* Governance: validator records, votes and the election of validators.    *)
(***************************************************************************)
\* validator records a store can hold under a key
ValidatorRecords ==
    {NoValidator}
    \cup {[exists |-> TRUE, registered |-> TRUE, votes |-> v] : v \in {0, 1, 2}}
    \cup {[exists |-> TRUE, registered |-> FALSE, votes |-> v] : v \in {0, 2}}
StandbyLists == UNION {[1 .. n -> PubKeys] : n \in 1 .. MaxStandby}
ValidatorsCounts == [1 .. MaxValidatorsVoted -> {0, 1}]
\* the orders in which a store can enumerate the keys S
Enumerations(S) ==
    {e \in [1 .. Cardinality(S) -> S] : \A i, j \in 1 .. Cardinality(S) : i # j => e[i] # e[j]}

\* neoNative.registerValidator: true when registerValidatorInternal returns nil
registerValidator(vals, pub) ==
    [validators |-> registerValidatorInternal(vals, pub), status |-> "true"]

\* neoNative.vote over voteInternal: false without a witness of the account;
\* with one, voteInternal ends in panic("TODO")
vote(vals, h, pubs, witness) ==
    IF ~witness THEN [validators |-> vals, status |-> "false"]
    ELSE [validators |-> vals, status |-> "panic"]

\* dao.GetValidators: the records under STValidator, in the order of store.Seek
GetValidators(vals, enum) ==
    [i \in 1 .. Len(enum) |->
        [pk |-> enum[i], registered |-> vals[enum[i]].registered,
         votes |-> vals[enum[i]].votes]]

\* the less function getValidators gives to sort.Slice
validatorLess(a, b) ==
    IF a.registered # b.registered THEN a.registered
    ELSE IF a.votes # b.votes THEN a.votes > b.votes
    ELSE a.pk < b.pk

\* PublicKeys.Less: PublicKey.Cmp == -1
keyLess(a, b) == a < b

\* sort.Slice(validators, less): the permutation of s that less orders
sortValidators(s) ==
    LET ins(sorted, x) ==
            LET pos == 1 + Cardinality({i \in 1 .. Len(sorted) :
                                          validatorLess(sorted[i], x)})
            IN  SubSeq(sorted, 1, pos - 1) \o <<x>> \o SubSeq(sorted, pos, Len(sorted))
        f[i \in 0 .. Len(s)] == IF i = 0 THEN <<>> ELSE ins(f[i - 1], s[i])
    IN  f[Len(s)]

\* sort.Sort(result) of PublicKeys
sortKeys(s) ==
    LET ins(sorted, x) ==
            LET pos == 1 + Cardinality({i \in 1 .. Len(sorted) : keyLess(sorted[i], x)})
            IN  SubSeq(sorted, 1, pos - 1) \o <<x>> \o SubSeq(sorted, pos, Len(sorted))
        f[i \in 0 .. Len(s)] == IF i = 0 THEN <<>> ELSE ins(f[i - 1], s[i])
    IN  f[Len(s)]

Contains(keys, k) == \E i \in 1 .. Len(keys) : keys[i] = k

\* PublicKeys.Unique: the first occurrence of every key, in order
Unique(keys) ==
    LET f[i \in 0 .. Len(keys)] ==
            IF i = 0 THEN <<>>
            ELSE IF Contains(f[i - 1], keys[i]) THEN f[i - 1]
            ELSE Append(f[i - 1], keys[i])
    IN  f[Len(keys)]

RegisteredAndHasVotes(v) == v.registered /\ v.votes > 0

\* ValidatorsCount.GetWeightedAverage: the committee size averaged over the
\* tallies, zero when nothing was tallied
GetWeightedAverage(vc) ==
    LET sw[i \in 0 .. Len(vc)] == IF i = 0 THEN 0 ELSE sw[i - 1] + vc[i]
        sv[i \in 0 .. Len(vc)] == IF i = 0 THEN 0 ELSE sv[i - 1] + i * vc[i]
    IN  IF sw[Len(vc)] = 0 THEN 0 ELSE sv[Len(vc)] \div sw[Len(vc)]

\* getValidators that takes the records in the order the store enumerates them
getValidators_unranked(vals, enum, vc, sb) ==
    LET vs == GetValidators(vals, enum)
        avg == GetWeightedAverage(vc)
        count == IF avg < Len(sb) THEN Len(sb) ELSE avg
        usb == Unique(sb)
        sel == SelectSeq(vs, LAMBDA v : RegisteredAndHasVotes(v) \/ Contains(usb, v.pk))
        elig == [i \in 1 .. Len(sel) |-> sel[i].pk]
        top[i \in 0 .. Len(usb)] ==
            IF i = 0 THEN elig
            ELSE IF Len(top[i - 1]) < count /\ ~Contains(top[i - 1], usb[i])
                 THEN Append(top[i - 1], usb[i])
                 ELSE top[i - 1]
        result == IF Len(elig) >= count THEN SubSeq(elig, 1, count) ELSE top[Len(usb)]
    IN  sortKeys(result)

\* neoNative.getValidators
getValidators(vals, enum, vc, sb) ==
    IF Len(vc) = 0 THEN sb
    ELSE
    LET vs == sortValidators(GetValidators(vals, enum))
        avg == GetWeightedAverage(vc)
        count == IF avg < Len(sb) THEN Len(sb) ELSE avg
        usb == Unique(sb)
        sel == SelectSeq(vs, LAMBDA v : RegisteredAndHasVotes(v) \/ Contains(usb, v.pk))
        elig == [i \in 1 .. Len(sel) |-> sel[i].pk]
        top[i \in 0 .. Len(usb)] ==
            IF i = 0 THEN elig
            ELSE IF Len(top[i - 1]) < count /\ ~Contains(top[i - 1], usb[i])
                 THEN Append(top[i - 1], usb[i])
                 ELSE top[i - 1]
        result == IF Len(elig) >= count THEN SubSeq(elig, 1, count) ELSE top[Len(usb)]
    IN  sortKeys(result)

\* a chain whose store holds any validator records and tallies
ElectInit ==
    /\ nativeState = [c \in Tokens |->
                        [present |-> TRUE, data |-> serializeState(Genesis.totalSupply[c])]]
    /\ validators \in [PubKeys -> ValidatorRecords]
    /\ standby \in StandbyLists
    /\ vcount \in ValidatorsCounts
    /\ started = Tokens
    /\ multisig = NoScript
    /\ gcall = NoCall
    /\ savedSupply = Genesis.totalSupply
    /\ minted = [c \in Tokens |-> 1]
    /\ nstarts = 0

\* vote and getValidators leave the store as it is: the calls that would
\* follow them are the calls that follow the state before them
Callable == gcall.op \in {"none", "registerValidator"}

GovUnchanged ==
    /\ UNCHANGED <<nativeState, standby, started, multisig, vcount, savedSupply, minted,
                   nstarts>>
    /\ UNCHANGED <<tokVars, blkVars, natVars, stoVars, auxVars, lateVars>>

RegisterValidator(pk) ==
    /\ Callable
    /\ LET r == registerValidator(validators, pk)
       IN  /\ validators' = r.validators
           /\ gcall' = [NoCall EXCEPT !.op = "registerValidator", !.pk = pk,
                                      !.status = r.status]
    /\ GovUnchanged

Vote(h, pubs, witness) ==
    /\ Callable
    /\ LET r == vote(validators, h, pubs, witness)
       IN  /\ validators' = r.validators
           /\ gcall' = [NoCall EXCEPT !.op = "vote", !.h = h, !.pubs = pubs,
                                      !.witness = witness, !.status = r.status]
    /\ GovUnchanged

GetValidatorsCall(enum) ==
    /\ Callable
    /\ gcall' = [NoCall EXCEPT !.op = "getValidators", !.enum = enum,
                               !.out = getValidators(validators, enum, vcount, standby),
                               !.status = "ok"]
    /\ UNCHANGED validators
    /\ GovUnchanged

ElectNext ==
    \/ \E pk \in PubKeys : RegisterValidator(pk)
    \/ \E pubs \in {{1}, {1, 2}}, w \in BOOLEAN : Vote(StandbyHash, pubs, w)
    \/ \E enum \in Enumerations({k \in PubKeys : validators[k].exists}) :
          GetValidatorsCall(enum)

(***************************************************************************)
(* A DAO over a backend store: reads through the layers.                   *)
(***************************************************************************)
NoGet == [op |-> "none", k |-> SYSCurrentBlock, err |-> "", val |-> IntVal(0)]
StoredValues == {IntVal(1), IntVal(2)}

\* newDao: a new MemCachedStore over the backend
newDao(d) == Append(d, EmptyOverlay)

\* dao.GetAndDecode: the error of store.Get, else the decoded entity
GetAndDecode(d, st, k) ==
    LET r == DaoGet(d, st, k)
    IN  IF ~r.present THEN [err |-> "ErrKeyNotFound", val |-> IntVal(0)]
        ELSE [err |-> "", val |-> r.val]

NoPersist == [op |-> "none", n |-> 0, err |-> ""]

StoOff == oplog = <<>> /\ got = NoGet /\ pres = NoPersist

\* a backend that holds any values under the storage keys, and a DAO over it
LayerInit ==
    /\ store \in {st \in [Keys -> {NotFound} \cup {Found(v) : v \in StoredValues}] :
                     \A k \in Keys \ StorageKeys : st[k] = NotFound}
    /\ dao = newDao(<<>>)
    /\ height = 0
    /\ contracts = <<>>
    /\ regOrder = <<>>
    /\ pc = "off"
    /\ cur = [index |-> 0, ntx |-> 0]
    /\ txi = 0
    /\ hookLog = <<>>
    /\ hooki = 0
    /\ blocksChan = <<>>
    /\ snap = [k \in Keys |-> NotFound]
    /\ outcome = "none"
    /\ failedAt = "none"
    /\ lastTx = NoTx
    /\ retried = FALSE
    /\ nblocks = 0
    /\ ntxs = 0

StoUnchanged ==
    /\ UNCHANGED <<store, height, contracts, regOrder, pc, cur, txi, hookLog, hooki,
                   blocksChan, snap, outcome, failedAt, lastTx, retried, nblocks, ntxs>>
    /\ UNCHANGED pres
    /\ UNCHANGED <<tokVars, natVars, govVars, auxVars, lateVars>>

\* dao.Put of an entity under k
StorePut(k, val) ==
    /\ Len(oplog) < MaxStoreOps
    /\ dao' = DaoPut(dao, k, val)
    /\ oplog' = Append(oplog, [op |-> "put", k |-> k, val |-> val])
    /\ got' = NoGet
    /\ StoUnchanged

\* dao.store.Delete of k
StoreDelete(k) ==
    /\ Len(oplog) < MaxStoreOps
    /\ dao' = DaoDelete(dao, k)
    /\ oplog' = Append(oplog, [op |-> "del", k |-> k, val |-> IntVal(0)])
    /\ got' = NoGet
    /\ StoUnchanged

\* a DAO is made over the store of this one (an interop context's DAO)
StackDao ==
    /\ Len(dao) < MaxLayers
    /\ dao' = newDao(dao)
    /\ got' = NoGet
    /\ UNCHANGED oplog
    /\ StoUnchanged

\* dao.GetAndDecode of k
StoreGet(k) ==
    /\ got.op = "none"
    /\ LET r == GetAndDecode(dao, store, k)
       IN  got' = [op |-> "get", k |-> k, err |-> r.err, val |-> r.val]
    /\ UNCHANGED <<dao, oplog>>
    /\ StoUnchanged

LayerNext ==
    \/ \E k \in StorageKeys, v \in StoredValues : StorePut(k, v)
    \/ \E k \in StorageKeys : StoreDelete(k)
    \/ StackDao
    \/ \E k \in StorageKeys : StoreGet(k)

(***************************************************************************)
(* Persist of a DAO into the store below it.                               *)
(***************************************************************************)
\* the keys the layer holds a put or a delete entry for
Entries(layer) == {k \in Keys : layer[k].op # "none"}

\* the layer's batch written to the persistent store, for the keys ks only
WriteBatch(layer, st, ks) ==
    [k \in Keys |-> IF k \notin ks THEN st[k]
                    ELSE IF layer[k].op = "put" THEN Found(layer[k].val)
                    ELSE IF layer[k].op = "del" THEN NotFound
                    ELSE st[k]]

\* a Persist that empties the layer when the store returned an error
Persist_clearsOnError(d, st, perr, written) ==
    LET top == d[Len(d)]
    IN  IF perr
        THEN [dao |-> [d EXCEPT ![Len(d)] = EmptyOverlay],
              store |-> WriteBatch(top, st, written),
              n |-> 0, err |-> "store error"]
        ELSE IF Len(d) = 1
        THEN [dao |-> <<EmptyOverlay>>, store |-> PersistIntoStore(top, st),
              n |-> Cardinality(Entries(top)), err |-> ""]
        ELSE [dao |-> [d EXCEPT ![Len(d) - 1] = PersistInto(top, @),
                                ![Len(d)] = EmptyOverlay],
              store |-> st, n |-> Cardinality(Entries(top)), err |-> ""]

\* dao.Persist over MemCachedStore.Persist: the entries of the innermost
\* layer go to its parent (the layer below, or the persistent store), then the
\* layer is emptied; when the store fails, after it has written the keys
\* `written` of the batch, the layer is kept
Persist(d, st, perr, written) ==
    LET top == d[Len(d)]
    IN  IF perr
        THEN [dao |-> d, store |-> WriteBatch(top, st, written),
              n |-> 0, err |-> "store error"]
        ELSE IF Len(d) = 1
        THEN [dao |-> <<EmptyOverlay>>, store |-> PersistIntoStore(top, st),
              n |-> Cardinality(Entries(top)), err |-> ""]
        ELSE [dao |-> [d EXCEPT ![Len(d) - 1] = PersistInto(top, @),
                                ![Len(d)] = EmptyOverlay],
              store |-> st, n |-> Cardinality(Entries(top)), err |-> ""]

\* dao.Persist; only the persistent store can fail
PersistStep(perr, written) ==
    /\ perr => Len(dao) = 1
    /\ written \subseteq Entries(dao[Len(dao)])
    /\ ~perr => written = Entries(dao[Len(dao)])
    /\ LET r == Persist(dao, store, perr, written)
       IN  /\ dao' = r.dao
           /\ store' = r.store
           /\ pres' = [op |-> "persist", n |-> r.n, err |-> r.err]
    /\ got' = NoGet
    /\ UNCHANGED oplog
    /\ UNCHANGED <<height, contracts, regOrder, pc, cur, txi, hookLog, hooki,
                   blocksChan, snap, outcome, failedAt, lastTx, retried, nblocks, ntxs>>
    /\ UNCHANGED <<tokVars, natVars, govVars, auxVars, lateVars>>

\* the DAO under Put (of one value), Delete, stacking and Persist
PersistNext ==
    \/ \E k \in StorageKeys : StorePut(k, IntVal(1))
    \/ \E k \in StorageKeys : StoreDelete(k)
    \/ StackDao
    \/ \E perr \in BOOLEAN, written \in SUBSET StorageKeys : PersistStep(perr, written)

(***************************************************************************)
(* Crypto interops: ECDSACheckMultisig on the evaluation stack.            *)
(***************************************************************************)
BoolItem(b) == [t |-> "Boolean", s |-> "", a |-> <<>>, n |-> IF b THEN 1 ELSE 0]

\* a signature is modelled by the key whose owner made it over the message:
\* PublicKey.Verify(signature, hash)
Verify(key, sig) == key = sig

\* vm.CheckMultisigPar: the keys are walked once; every signature, in order,
\* must be verified by a key after the key that verified the one before it
CheckMultisigPar(pkeys, sigs) ==
    LET f[i \in 1 .. Len(sigs) + 1, j \in 1 .. Len(pkeys) + 1] ==
            IF i > Len(sigs) THEN TRUE
            ELSE IF j > Len(pkeys) THEN FALSE
            ELSE IF Verify(pkeys[j], sigs[i]) THEN f[i + 1, j + 1]
            ELSE f[i, j + 1]
    IN  f[1, 1]

\* Estack().PopSigElements: the elements of the array on top of the stack
PopSigElements(stk) ==
    IF stk = <<>> \/ Head(stk).t # "Array" \/ Head(stk).a = <<>>
    THEN [err |-> TRUE, elems |-> <<>>, rest |-> IF stk = <<>> THEN stk ELSE Tail(stk)]
    ELSE [err |-> FALSE, elems |-> Head(stk).a, rest |-> Tail(stk)]

\* the interop without the comparison of the two lengths
ecdsaCheckMultisig_noCountCheck(stk) ==
    IF stk = <<>> \/ Head(stk).t # "ByteArray"
    THEN [err |-> "not a byte array", estack |-> IF stk = <<>> THEN stk ELSE Tail(stk)]
    ELSE LET pk == PopSigElements(Tail(stk))
             sg == PopSigElements(pk.rest)
         IN  IF pk.err THEN [err |-> "wrong parameters", estack |-> pk.rest]
             ELSE IF sg.err THEN [err |-> "wrong parameters", estack |-> sg.rest]
             ELSE [err |-> "",
                   estack |-> <<BoolItem(CheckMultisigPar(pk.elems, sg.elems))>> \o sg.rest]

\* interopContext.ecdsaCheckMultisig on the stack stk, top first
ecdsaCheckMultisig(stk) ==
    IF stk = <<>> \/ Head(stk).t # "ByteArray"
    THEN [err |-> "not a byte array", estack |-> IF stk = <<>> THEN stk ELSE Tail(stk)]
    ELSE LET pk == PopSigElements(Tail(stk))
             sg == PopSigElements(pk.rest)
         IN  IF pk.err THEN [err |-> "wrong parameters", estack |-> pk.rest]
             ELSE IF sg.err THEN [err |-> "wrong parameters", estack |-> sg.rest]
             ELSE IF Len(pk.elems) < Len(sg.elems)
             THEN [err |-> "more signatures than there are keys", estack |-> sg.rest]
             ELSE [err |-> "",
                   estack |-> <<BoolItem(CheckMultisigPar(pk.elems, sg.elems))>> \o sg.rest]

\* the stacks a verification script has built: the message, the keys, the
\* signatures (one more than there can be keys), or a byte array for the keys
KeyLists == UNION {[1 .. n -> PubKeys] : n \in 1 .. MaxSigKeys}
SigLists == UNION {[1 .. n -> PubKeys] : n \in 1 .. MaxSigKeys + 1}
MultisigStacks ==
    {<<BytesItem("msg"), ArrayItem(ks), ArrayItem(ss)>> : ks \in KeyLists, ss \in SigLists}
    \cup {<<BytesItem("msg"), BytesItem("sum"), ArrayItem(ss)>> : ss \in SigLists}

CryptoInit ==
    /\ npc = "loaded"
    /\ script \in {[hash |-> "app", stack |-> stk] : stk \in MultisigStacks}
    /\ estack = script.stack
    /\ vmstate = "NONE"
    /\ verr = ""
    /\ inst = "Test"
    /\ handlerLog = <<>>

\* SYSCALL Neo.Crypto.ECDSACheckMultisig: the VM faults on the handler's error
CheckMultisig ==
    /\ npc = "loaded"
    /\ LET r == ecdsaCheckMultisig(estack)
       IN  /\ estack' = r.estack
           /\ verr' = r.err
           /\ vmstate' = IF r.err # "" THEN "FAULT" ELSE "NONE"
    /\ npc' = "done"
    /\ UNCHANGED <<script, inst, handlerLog>>
    /\ UNCHANGED <<tokVars, blkVars, govVars, stoVars, auxVars, lateVars>>

CryptoNext == CheckMultisig

(***************************************************************************)
(* Unspent coins: the double-spend check of a block's inputs.              *)
(***************************************************************************)
PrevHashes == {"t1", "t2"}
\* transaction.Input: (PrevHash, PrevIndex)
Inputs == PrevHashes \X {0, 1}
\* the inputs of one transaction
InputLists == {<<>>} \cup UNION {[1 .. n -> Inputs] : n \in 1 .. 2}
\* state.UnspentCoin.States: the flags of every output of a transaction
CoinStates == UNION {[1 .. n -> {{"Confirmed"}, {"Confirmed", "Spent"}}] : n \in 1 .. 2}
NoCoin == [present |-> FALSE, states |-> <<>>]

\* dao.GetUnspentCoinState
GetUnspentCoinState(cs, prevHash) == cs[prevHash]

\* transaction.GroupInputsByPrevHash, as the set of previous hashes
GroupInputsByPrevHash(inputs) == {inputs[i][1] : i \in 1 .. Len(inputs)}

\* a checkUsedInputs that stops after the first input of every group
checkUsedInputs_firstOfGroup(cs, inputs, coin) ==
    IF Len(inputs) = 0 THEN FALSE
    ELSE \E prevHash \in GroupInputsByPrevHash(inputs) :
            LET unspent == GetUnspentCoinState(cs, prevHash)
                first == CHOOSE i \in 1 .. Len(inputs) :
                            /\ inputs[i][1] = prevHash
                            /\ \A j \in 1 .. i - 1 : inputs[j][1] # prevHash
            IN  \/ ~unspent.present
                \/ inputs[first][2] >= Len(unspent.states)
                \/ coin \in unspent.states[inputs[first][2] + 1]

\* dao.checkUsedInputs
checkUsedInputs(cs, inputs, coin) ==
    IF Len(inputs) = 0 THEN FALSE
    ELSE \E prevHash \in GroupInputsByPrevHash(inputs) :
            LET unspent == GetUnspentCoinState(cs, prevHash)
            IN  \/ ~unspent.present
                \/ \E i \in 1 .. Len(inputs) :
                      /\ inputs[i][1] = prevHash
                      /\ \/ inputs[i][2] >= Len(unspent.states)
                         \/ coin \in unspent.states[inputs[i][2] + 1]

\* dao.IsDoubleSpend
IsDoubleSpend(cs, tx) == checkUsedInputs(cs, tx, "Spent")

\* all inputs of the block, in order
AllInputs(b) ==
    LET f[i \in 0 .. Len(b)] == IF i = 0 THEN <<>> ELSE f[i - 1] \o b[i]
    IN  f[Len(b)]

\* a block check that looks at no input
NoDoubleSpendAcross_unchecked(b) == TRUE

\* pre-condition of a block: no input appears twice in the union of all inputs
NoDoubleSpendAcross(b) ==
    \A i, j \in 1 .. Len(AllInputs(b)) : i # j => AllInputs(b)[i] # AllInputs(b)[j]

\* step 2d for one transaction: the referenced outputs are marked spent
MarkSpent(cs, tx) ==
    [h \in PrevHashes |->
        IF ~cs[h].present THEN cs[h]
        ELSE [cs[h] EXCEPT !.states =
                [n \in 1 .. Len(cs[h].states) |->
                    IF \E i \in 1 .. Len(tx) : tx[i] = <<h, n - 1>>
                    THEN cs[h].states[n] \cup {"Spent"}
                    ELSE cs[h].states[n]]]]

\* validation of block b against the persistent DAO: the block's pre-condition,
\* and no transaction respends a spent output
ValidInputs(cs, b) ==
    /\ NoDoubleSpendAcross(b)
    /\ \A i \in 1 .. Len(b) : ~IsDoubleSpend(cs, b[i])

\* the applier on the inputs of a valid block b: every transaction's
\* referenced outputs are marked spent, in order
ApplyInputs(cs, b) ==
    LET f[i \in 0 .. Len(b)] ==
            IF i = 0 THEN cs ELSE MarkSpent(f[i - 1], b[i])
    IN  f[Len(b)]

UtxoOff ==
    /\ coins = [h \in PrevHashes |-> NoCoin]
    /\ anchor = 0
    /\ ublock = <<>>
    /\ ures = "none"

\* an action on the unspent coins leaves the rest alone
UtxoFrame ==
    UNCHANGED <<tokVars, blkVars, natVars, govVars, stoVars, tlogVars, contVars, mfstVars, iopVars, getVars, lateVars>>

(***************************************************************************)
(* NEP-5 transfer logs: the key of a page, and the page accessors.         *)
(***************************************************************************)
STNEP5Transfers == 162
Bytes == {0, 1}
\* util.Uint160 as its big-endian bytes
Uint160s == [1 .. Uint160Size -> Bytes]
PageIndexes == {0, 1, 256}
\* NEP5TransferLog.Raw of a page that was stored
Pages == {"p1", "p2"}
NoPage == "none"
EmptyLog == ""

\* binary.LittleEndian.PutUint32: the four bytes of v, lowest first
PutUint32(v) ==
    <<v % 256, (v \div 256) % 256, (v \div 65536) % 256, (v \div 16777216) % 256>>

\* the key of the layout: prefix, the whole hash, the index after it
getNEP5TransferLogKey_afterHash(acc, index) ==
    <<STNEP5Transfers>> \o acc \o PutUint32(index)

\* getNEP5TransferLogKey: the index is written from offset Uint160Size of the
\* key, that is over the last byte of the hash, and the last byte stays zero
getNEP5TransferLogKey(acc, index) ==
    LET key0 == [i \in 1 .. 1 + Uint160Size + 4 |-> 0]
        key1 == [key0 EXCEPT ![1] = STNEP5Transfers]
        key2 == [i \in 1 .. 1 + Uint160Size + 4 |->
                    IF i \in 2 .. 1 + Uint160Size THEN acc[i - 1] ELSE key1[i]]
    IN  [i \in 1 .. 1 + Uint160Size + 4 |->
            IF i \in Uint160Size + 1 .. Uint160Size + 4
            THEN PutUint32(index)[i - Uint160Size]
            ELSE key2[i]]

TransferLogKeys == {getNEP5TransferLogKey(a, i) : a \in Uint160s, i \in PageIndexes}

\* dao.GetNEP5TransferLog: a missing key is an empty log
GetNEP5TransferLog(st, acc, index) ==
    LET value == st[getNEP5TransferLogKey(acc, index)]
    IN  IF value = NoPage THEN EmptyLog ELSE value

NoLogCall == [op |-> "none", acc |-> <<>>, index |-> 0, key |-> <<>>, lg |-> EmptyLog]

TlogOff ==
    /\ tstore = [k \in TransferLogKeys |-> NoPage]
    /\ tcall = NoLogCall

TlogFrame ==
    UNCHANGED <<tokVars, blkVars, natVars, govVars, stoVars, utxoVars, contVars, mfstVars, iopVars, getVars, lateVars>>

\* dao.PutNEP5TransferLog
PutNEP5TransferLog(acc, index, lg) ==
    LET key == getNEP5TransferLogKey(acc, index)
    IN  /\ tstore' = [tstore EXCEPT ![key] = lg]
        /\ tcall' = [op |-> "put", acc |-> acc, index |-> index, key |-> key, lg |-> lg]
        /\ TlogFrame

\* a call of dao.GetNEP5TransferLog
GetNEP5TransferLogCall(acc, index) ==
    /\ tcall' = [op |-> "get", acc |-> acc, index |-> index,
                 key |-> getNEP5TransferLogKey(acc, index),
                 lg |-> GetNEP5TransferLog(tstore, acc, index)]
    /\ UNCHANGED tstore
    /\ TlogFrame

TlogNext ==
    \E acc \in Uint160s, index \in PageIndexes :
        \/ \E lg \in Pages : PutNEP5TransferLog(acc, index, lg)
        \/ GetNEP5TransferLogCall(acc, index)

(***************************************************************************)
(* Manifest containers and their JSON form.                                *)
(***************************************************************************)
ContainerTypes == {"StringContainer", "Uint160Container"}
StringItems == {"a", "b"}
Uint160Items == {"u1", "u2"}
ItemsOf(t) == IF t = "StringContainer" THEN StringItems ELSE Uint160Items

\* Container.Value: nil, a nil slice (from the JSON null), or a slice
NilValue == [kind |-> "nil", items |-> <<>>]
NilSlice == [kind |-> "nilslice", items |-> <<>>]
Slice(items) == [kind |-> "slice", items |-> items]

\* JSON data: a string, null, or an array of strings and numbers
JString(str) == [kind |-> "string", s |-> str, items |-> <<>>]
JNull == [kind |-> "null", s |-> "", items |-> <<>>]
JArray(items) == [kind |-> "array", s |-> "", items |-> items]
JItem(k, str) == [kind |-> k, s |-> str]
NoData == [kind |-> "none", s |-> "", items |-> <<>>]

\* util.Uint160.MarshalJSON: "0x" and the hex string
Uint160Hex == [u \in Uint160Items |-> IF u = "u1" THEN "0x01" ELSE "0x02"]
\* util.Uint160.UnmarshalJSON succeeds on these strings only
IsUint160Hex(str) == \E u \in Uint160Items : Uint160Hex[u] = str
Uint160FromHex(str) == CHOOSE u \in Uint160Items : Uint160Hex[u] = str

NewContainer(t) == [Type |-> t, Value |-> NilValue]

\* Container.IsWildcard
IsWildcard(c) == c.Value.kind = "nil"

\* Container.Contains
Container_Contains(c, v) ==
    \/ IsWildcard(c)
    \/ \E i \in 1 .. Len(c.Value.items) : c.Value.items[i] = v

\* a Restrict that leaves the value as it is
Container_Restrict_keepsValue(c) == c

\* Container.Restrict
Container_Restrict(c) == [c EXCEPT !.Value = Slice(<<>>)]

\* Container.Add
Container_Add(c, v) ==
    IF c.Value.kind = "nil" THEN [c EXCEPT !.Value = Slice(<<v>>)]
    ELSE [c EXCEPT !.Value = Slice(Append(c.Value.items, v))]

\* json.Marshal of Container.Value
MarshalValue(c) ==
    IF c.Value.kind = "nilslice" THEN JNull
    ELSE JArray([i \in 1 .. Len(c.Value.items) |->
                    JItem("string", IF c.Type = "StringContainer" THEN c.Value.items[i]
                                    ELSE Uint160Hex[c.Value.items[i]])])

\* a MarshalJSON that writes the wildcard as a list
MarshalJSON_wildcardAsList(c) == MarshalValue(c)

\* Container.MarshalJSON
MarshalJSON(c) == IF IsWildcard(c) THEN JString("*") ELSE MarshalValue(c)

\* json.Unmarshal of data into a slice of the container's type
UnmarshalSlice(t, data) ==
    IF data.kind = "null" THEN [err |-> FALSE, Value |-> NilSlice]
    ELSE IF data.kind # "array" THEN [err |-> TRUE, Value |-> NilValue]
    ELSE IF \E i \in 1 .. Len(data.items) :
                \/ data.items[i].kind # "string"
                \/ t = "Uint160Container" /\ ~IsUint160Hex(data.items[i].s)
         THEN [err |-> TRUE, Value |-> NilValue]
    ELSE [err |-> FALSE,
          Value |-> Slice([i \in 1 .. Len(data.items) |->
                             IF t = "StringContainer" THEN data.items[i].s
                             ELSE Uint160FromHex(data.items[i].s)])]

\* Container.UnmarshalJSON: the error and the container after the call
UnmarshalJSON(c, data) ==
    IF data = JString("*") THEN [err |-> FALSE, c |-> [c EXCEPT !.Value = NilValue]]
    ELSE LET r == UnmarshalSlice(c.Type, data)
         IN  IF r.err THEN [err |-> TRUE, c |-> c]
             ELSE [err |-> FALSE, c |-> [c EXCEPT !.Value = r.Value]]

NoResult == [op |-> "none", data |-> NoData, err |-> FALSE, c |-> NewContainer("StringContainer")]

JsonItems == {JItem("string", "a"), JItem("string", "*"), JItem("string", "0x01"),
              JItem("string", "notahex"), JItem("number", "123")}
JsonInputs ==
    {JString("*"), JString("a"), JNull}
        \cup {JArray(items) : items \in UNION {[1 .. n -> JsonItems] : n \in 0 .. 2}}

ContOff ==
    /\ cont = NewContainer("StringContainer")
    /\ chist = <<>>
    /\ cres = NoResult

ContInit ==
    /\ cont \in {NewContainer(t) : t \in ContainerTypes}
    /\ chist = <<>>
    /\ cres = NoResult

ContFrame ==
    UNCHANGED <<tokVars, blkVars, natVars, govVars, stoVars, utxoVars, tlogVars, mfstVars, iopVars, getVars, lateVars>>

\* c.Restrict()
RestrictCall ==
    /\ Len(chist) < MaxContainerOps
    /\ cont' = Container_Restrict(cont)
    /\ chist' = Append(chist, "restrict")
    /\ cres' = NoResult
    /\ ContFrame

\* c.Add(v)
AddCall(v) ==
    /\ Len(chist) < MaxContainerOps
    /\ cont' = Container_Add(cont, v)
    /\ chist' = Append(chist, v)
    /\ cres' = NoResult
    /\ ContFrame

\* testMarshalUnmarshal: MarshalJSON, then UnmarshalJSON into a new container
MarshalUnmarshal ==
    /\ cres.op = "none"
    /\ LET data == MarshalJSON(cont)
           r == UnmarshalJSON(NewContainer(cont.Type), data)
       IN  cres' = [op |-> "roundtrip", data |-> data, err |-> r.err, c |-> r.c]
    /\ UNCHANGED <<cont, chist>>
    /\ ContFrame

\* json.Unmarshal(js, c) for a new container of the same type
UnmarshalInput(data) ==
    /\ cres.op = "none"
    /\ LET r == UnmarshalJSON(NewContainer(cont.Type), data)
       IN  cres' = [op |-> "input", data |-> data, err |-> r.err, c |-> r.c]
    /\ UNCHANGED <<cont, chist>>
    /\ ContFrame

ContNext ==
    \/ RestrictCall
    \/ \E v \in ItemsOf(cont.Type) : AddCall(v)
    \/ MarshalUnmarshal
    \/ \E data \in JsonInputs : UnmarshalInput(data)

(***************************************************************************)
(* Contract manifests and their JSON form.                                 *)
(***************************************************************************)
\* smartcontract.PropertyState as the set of its flags
PropertyStates == SUBSET {"HasStorage", "HasDynamicInvoke", "IsPayable"}
NoProperties == {}
\* []Permission: nil, or a list with the wildcard permission
PermissionLists == {<<>>, <<"*">>}

\* NewManifest: no features, Trusts and SafeMethods restricted
NewManifest ==
    [Features |-> NoProperties,
     Permissions |-> <<>>,
     Trusts |-> Container_Restrict(NewContainer("Uint160Container")),
     SafeMethods |-> Container_Restrict(NewContainer("StringContainer"))]

\* the containers a manifest can hold: wildcard, empty, or with values
ContainersOf(t) ==
    {NewContainer(t), Container_Restrict(NewContainer(t))}
        \cup {Container_Add(NewContainer(t), v) : v \in ItemsOf(t)}

Manifests ==
    [Features : PropertyStates,
     Permissions : PermissionLists,
     Trusts : ContainersOf("Uint160Container"),
     SafeMethods : ContainersOf("StringContainer")]

\* Manifest.MarshalJSON: manifestAux with the features map
Manifest_MarshalJSON(m) ==
    [features |-> [storage |-> "HasStorage" \in m.Features,
                   payable |-> "IsPayable" \in m.Features],
     permissions |-> m.Permissions,
     trusts |-> MarshalJSON(m.Trusts),
     safeMethods |-> MarshalJSON(m.SafeMethods)]

\* Manifest.UnmarshalJSON into m: the error and the manifest after the call
Manifest_UnmarshalJSON(m, data) ==
    LET trusts == UnmarshalJSON(m.Trusts, data.trusts)
        safeMethods == UnmarshalJSON(m.SafeMethods, data.safeMethods)
    IN  IF trusts.err \/ safeMethods.err THEN [err |-> TRUE, m |-> m]
        ELSE [err |-> FALSE,
              m |-> [Features |-> (m.Features
                                     \cup (IF data.features.storage
                                           THEN {"HasStorage"} ELSE {}))
                                     \cup (IF data.features.payable
                                           THEN {"IsPayable"} ELSE {}),
                     Permissions |-> data.permissions,
                     Trusts |-> trusts.c,
                     SafeMethods |-> safeMethods.c]]

NoManifestResult == [op |-> "none", err |-> FALSE, m |-> NewManifest]

MfstOff ==
    /\ mfst = NewManifest
    /\ mres = NoManifestResult

MfstInit ==
    /\ mfst \in Manifests
    /\ mres = NoManifestResult

\* json.Marshal(m), then json.Unmarshal into NewManifest
ManifestRoundTrip ==
    /\ mres.op = "none"
    /\ LET r == Manifest_UnmarshalJSON(NewManifest, Manifest_MarshalJSON(mfst))
       IN  mres' = [op |-> "roundtrip", err |-> r.err, m |-> r.m]
    /\ UNCHANGED mfst
    /\ UNCHANGED <<tokVars, blkVars, natVars, govVars, stoVars, utxoVars, tlogVars, contVars, iopVars, getVars, lateVars>>

MfstNext == ManifestRoundTrip

(***************************************************************************)
(* Interop tables: ids from names, sorting, and the lookup by id.          *)
(***************************************************************************)
InteropNames == {"n1", "n2", "n3"}
InteropIds == 0 .. MaxInteropId
InteropFuncs == {"h1", "h2"}
InteropPrices == {1, 100}
\* an entry as declared: the ID is not set
DeclaredInterops == [ID : {0}, Name : InteropNames, Func : InteropFuncs, Price : InteropPrices]
\* tables as declared: entries with different names, in any order
DeclaredTables ==
    {t \in UNION {[1 .. n -> DeclaredInterops] : n \in 0 .. MaxInterops} :
        \A i, j \in 1 .. Len(t) : i # j => t[i].Name # t[j].Name}
\* vm.InteropNameToID: different names of the tables have different ids
NameToIDs == {f \in [InteropNames -> InteropIds] :
                \A a, b \in InteropNames : a # b => f[a] # f[b]}
InteropNameToID(name) == nameid[name]

\* sort.Slice(iops, ID <): the entries in ascending order of ID
sortByID(iops) ==
    [i \in 1 .. Len(iops) |->
        iops[CHOOSE k \in 1 .. Len(iops) :
                Cardinality({j \in 1 .. Len(iops) : iops[j].ID < iops[k].ID}) = i - 1]]

\* an initialisation that sets the ids and leaves the order
initIDinInteropsSlice_unsorted(iops) ==
    [i \in 1 .. Len(iops) |-> [iops[i] EXCEPT !.ID = InteropNameToID(iops[i].Name)]]

\* initIDinInteropsSlice: ids from names, then sorted
initIDinInteropsSlice(iops) ==
    sortByID([i \in 1 .. Len(iops) |->
                [iops[i] EXCEPT !.ID = InteropNameToID(iops[i].Name)]])

\* sort.Search(len(slice), slice[i].ID >= id): the loop on 0-based i, j
Search(slice, id) ==
    LET f[i \in 0 .. Len(slice), j \in 0 .. Len(slice)] ==
            IF i >= j THEN i
            ELSE LET h == (i + j) \div 2
                 IN  IF ~(slice[h + 1].ID >= id) THEN f[h + 1, j] ELSE f[i, h]
    IN  f[0, Len(slice)]

NoInterop == [op |-> "none", id |-> 0, found |-> FALSE, Func |-> "nil", Price |-> 0]

\* getInteropFromSlice(ic, slice)(id)
getInteropFromSlice(slice, id) ==
    LET n == Search(slice, id)
    IN  IF n < Len(slice) /\ slice[n + 1].ID = id
        THEN [op |-> "lookup", id |-> id, found |-> TRUE,
              Func |-> slice[n + 1].Func, Price |-> slice[n + 1].Price]
        ELSE [NoInterop EXCEPT !.op = "lookup", !.id = id]

IopOff ==
    /\ nameid = [n \in InteropNames |-> 0]
    /\ itable = <<>>
    /\ istage = "declared"
    /\ ires = NoInterop

IopInit ==
    /\ nameid \in NameToIDs
    /\ itable \in DeclaredTables
    /\ istage = "declared"
    /\ ires = NoInterop

IopFrame ==
    UNCHANGED <<tokVars, blkVars, natVars, govVars, stoVars,
                utxoVars, tlogVars, contVars, mfstVars, getVars, lateVars>>

\* init(): the ids of the table are set and the table is sorted
InitInterops ==
    /\ istage = "declared"
    /\ itable' = initIDinInteropsSlice(itable)
    /\ istage' = "initialised"
    /\ UNCHANGED <<nameid, ires>>
    /\ IopFrame

\* the getter of the table called with id
GetInterop(id) ==
    /\ istage = "initialised"
    /\ ires' = getInteropFromSlice(itable, id)
    /\ UNCHANGED <<nameid, itable, istage>>
    /\ IopFrame

IopNext ==
    \/ InitInterops
    \/ \E id \in InteropIds : GetInterop(id)

(***************************************************************************)
(* Typed getters of the DAO: defaults and errors.                          *)
(***************************************************************************)
\* the entities, one key of each
Entities == {"Account", "NEP5Balances", "NEP5TransferLog", "Validator",
             "ValidatorsCount", "UnspentCoin", "AppExecResult"}
\* under a key: nothing, bytes that decode, or bytes that do not
RawValues == {"missing", "good", "corrupt"}
NilEntity == "nil"

\* dao.store.Get: serr is an error of the store other than not-found
StoreGet_(raw, serr) ==
    IF serr THEN [err |-> "ErrStore", bytes |-> "nil"]
    ELSE IF raw = "missing" THEN [err |-> "ErrKeyNotFound", bytes |-> "nil"]
    ELSE [err |-> "", bytes |-> raw]

\* dao.GetAndDecode: the error of the store, else the error of the reader
GetAndDecodeEntity(entity, raw, serr) ==
    LET r == StoreGet_(raw, serr)
    IN  IF r.err # "" THEN [err |-> r.err, val |-> entity]
        ELSE IF r.bytes = "corrupt" THEN [err |-> "ErrDecode", val |-> entity]
        ELSE [err |-> "", val |-> "stored"]

\* the plain getters: GetAccountState, GetValidatorState, GetUnspentCoinState,
\* GetAppExecResult
PlainGet(raw, serr) ==
    LET r == GetAndDecodeEntity("zero", raw, serr)
    IN  IF r.err # "" THEN [err |-> r.err, val |-> NilEntity] ELSE r

dao_GetAccountState(raw, serr) == PlainGet(raw, serr)
dao_GetValidatorState(raw, serr) == PlainGet(raw, serr)
dao_GetUnspentCoinState(raw, serr) == PlainGet(raw, serr)
dao_GetAppExecResult(raw, serr) == PlainGet(raw, serr)

\* dao.GetAccountStateOrNew
dao_GetAccountStateOrNew(raw, serr) ==
    LET r == dao_GetAccountState(raw, serr)
    IN  IF r.err # ""
        THEN IF r.err # "ErrKeyNotFound" THEN [err |-> r.err, val |-> NilEntity]
             ELSE [err |-> "", val |-> "NewAccount"]
        ELSE r

\* dao.GetValidatorStateOrNew
dao_GetValidatorStateOrNew(raw, serr) ==
    LET r == dao_GetValidatorState(raw, serr)
    IN  IF r.err # ""
        THEN IF r.err # "ErrKeyNotFound" THEN [err |-> r.err, val |-> NilEntity]
             ELSE [err |-> "", val |-> "Validator{PublicKey}"]
        ELSE r

\* dao.GetNEP5Balances
dao_GetNEP5Balances(raw, serr) ==
    LET r == GetAndDecodeEntity("NewNEP5Balances", raw, serr)
    IN  IF r.err # "" /\ r.err # "ErrKeyNotFound" THEN [err |-> r.err, val |-> NilEntity]
        ELSE [err |-> "", val |-> r.val]

\* a GetValidatorsCount that answers every error with the default
dao_GetValidatorsCount_anyError(raw, serr) ==
    [err |-> "", val |-> GetAndDecodeEntity("ValidatorsCount{}", raw, serr).val]

\* dao.GetValidatorsCount
dao_GetValidatorsCount(raw, serr) ==
    LET r == GetAndDecodeEntity("ValidatorsCount{}", raw, serr)
    IN  IF r.err # "" /\ r.err # "ErrKeyNotFound" THEN [err |-> r.err, val |-> NilEntity]
        ELSE [err |-> "", val |-> r.val]

\* dao.GetNEP5TransferLog, with the errors of the store: Raw is not decoded
dao_GetNEP5TransferLog(raw, serr) ==
    LET r == StoreGet_(raw, serr)
    IN  IF r.err # ""
        THEN IF r.err = "ErrKeyNotFound" THEN [err |-> "", val |-> "NewNEP5TransferLog"]
             ELSE [err |-> r.err, val |-> NilEntity]
        ELSE [err |-> "", val |-> "stored"]

\* the getters and the entity each of them reads
Getters ==
    {"GetAccountStateOrNew", "GetAccountState", "GetNEP5Balances", "GetNEP5TransferLog",
     "GetValidatorStateOrNew", "GetValidatorState", "GetValidatorsCount",
     "GetUnspentCoinState", "GetAppExecResult"}
EntityOf(g) ==
    CASE g \in {"GetAccountStateOrNew", "GetAccountState"} -> "Account"
      [] g = "GetNEP5Balances" -> "NEP5Balances"
      [] g = "GetNEP5TransferLog" -> "NEP5TransferLog"
      [] g \in {"GetValidatorStateOrNew", "GetValidatorState"} -> "Validator"
      [] g = "GetValidatorsCount" -> "ValidatorsCount"
      [] g = "GetUnspentCoinState" -> "UnspentCoin"
      [] OTHER -> "AppExecResult"
CallGetter(g, raw, serr) ==
    CASE g = "GetAccountStateOrNew" -> dao_GetAccountStateOrNew(raw, serr)
      [] g = "GetAccountState" -> dao_GetAccountState(raw, serr)
      [] g = "GetNEP5Balances" -> dao_GetNEP5Balances(raw, serr)
      [] g = "GetNEP5TransferLog" -> dao_GetNEP5TransferLog(raw, serr)
      [] g = "GetValidatorStateOrNew" -> dao_GetValidatorStateOrNew(raw, serr)
      [] g = "GetValidatorState" -> dao_GetValidatorState(raw, serr)
      [] g = "GetValidatorsCount" -> dao_GetValidatorsCount(raw, serr)
      [] g = "GetUnspentCoinState" -> dao_GetUnspentCoinState(raw, serr)
      [] OTHER -> dao_GetAppExecResult(raw, serr)

NoGetterCall == [getter |-> "none", raw |-> "missing", serr |-> FALSE,
                 err |-> "", val |-> NilEntity]

GetOff ==
    /\ estore = [e \in Entities |-> "missing"]
    /\ eres = NoGetterCall

\* a store with anything under the keys
GetInit ==
    /\ estore \in [Entities -> RawValues]
    /\ eres = NoGetterCall

\* one call of the getter g per behaviour; serr: the store fails
GetterCall(g, serr) ==
    /\ eres.getter = "none"
    /\ LET raw == estore[EntityOf(g)]
           r == CallGetter(g, raw, serr)
       IN  eres' = [getter |-> g, raw |-> raw, serr |-> serr, err |-> r.err, val |-> r.val]
    /\ UNCHANGED estore
    /\ UNCHANGED <<tokVars, blkVars, natVars, govVars, stoVars,
                   utxoVars, tlogVars, contVars, mfstVars, iopVars, lateVars>>

GetNext == \E g \in Getters, serr \in BOOLEAN : GetterCall(g, serr)

AuxOff == UtxoOff /\ TlogOff /\ ContOff /\ MfstOff /\ IopOff /\ GetOff

\* a store that holds any unspent-coin records
UtxoInit ==
    /\ coins \in [PrevHashes -> {NoCoin} \cup {[present |-> TRUE, states |-> st] :
                                                st \in CoinStates}]
    /\ anchor = 0
    /\ ublock = <<>>
    /\ ures = "none"

\* AddBlock of a block with the transactions b, as far as inputs go
ApplyBlockInputs(b) ==
    /\ ures = "none"
    /\ ublock' = b
    /\ IF ValidInputs(coins, b)
       THEN /\ coins' = ApplyInputs(coins, b)
            /\ anchor' = anchor + 1
            /\ ures' = "accepted"
       ELSE /\ UNCHANGED <<coins, anchor>>
            /\ ures' = "rejected"
    /\ UtxoFrame

UtxoNext ==
    /\ ures = "none"
    /\ \E b \in UNION {[1 .. n -> InputLists] : n \in 1 .. MaxBlockTxs} : ApplyBlockInputs(b)

(***************************************************************************)
(* Transactions that fault: the DAO layer is discarded, memory is kept.    *)
(***************************************************************************)
NoFault == [pending |-> FALSE, supply |-> [c \in Tokens |-> 0]]

FaultOff == faulted = NoFault

\* step 2e for a transaction whose script ran the token operation with
\* outcome r and then faulted: the writes of its DAO layer (accounts) and its
\* notifications are discarded; nep5TokenNative.totalSupply is a field of the
\* native and stays as the operation left it
FaultedTx(r, op) ==
    /\ nops < MaxOps
    /\ totalSupply' = r.st.totalSupply
    /\ ret' = "fault"
    /\ last' = op
    /\ nops' = nops + 1
    /\ faulted' = IF faulted.pending THEN faulted
                  ELSE [pending |-> TRUE, supply |-> totalSupply]
    /\ UNCHANGED <<accounts, notifications, block, reads, writes>>
    /\ UNCHANGED <<blkVars, natVars, govVars, stoVars, auxVars>>
    /\ UNCHANGED <<balVars, dblVars, stgVars, plogVars>>

FaultedTransfer(c, from, to, amount, cerr) ==
    FaultedTx(transfer(Cur, block, cerr, c, from, to, amount),
              [op |-> "transfer", c |-> c, from |-> from, to |-> to, amount |-> amount])

FaultedMint(c, h, amount, cerr) ==
    FaultedTx(mint(Cur, block, cerr, c, h, amount),
              [op |-> "mint", c |-> c, from |-> Nil, to |-> h, amount |-> amount])

FaultedBurn(c, h, amount, cerr) ==
    FaultedTx(burn(Cur, block, cerr, c, h, amount),
              [op |-> "burn", c |-> c, from |-> h, to |-> Nil, amount |-> amount])

\* blocks whose transactions fault, and OnPersist of the natives
FaultNext ==
    \/ \E b \in Blocks : NewContext(b)
    \/ \E c \in Tokens, f \in Hashes, t \in Hashes, a \in Amounts :
          \E cerr \in ClaimErrors(c) \X ClaimErrors(c) : FaultedTransfer(c, f, t, a, cerr)
    \/ \E c \in Tokens, h \in Hashes, a \in Amounts :
          \E cerr \in ClaimErrors(c) : FaultedMint(c, h, a, cerr)
    \/ \E c \in Tokens, h \in Hashes, a \in Amounts :
          \E cerr \in ClaimErrors(c) : FaultedBurn(c, h, a, cerr)
    \/ \E c \in Tokens : PersistState(c)

(***************************************************************************)
(* balanceOf of the NEP-5 template.                                        *)
(***************************************************************************)
\* state.NewNEP5Balances: no tracker; a tracker that is absent reads as the
\* zero Tracker, Balance 0
NewNEP5Balances == [c \in Tokens |-> 0]

NoBalanceOf == [called |-> FALSE, c |-> Nil, h |-> Nil, val |-> 0]

BalOff ==
    /\ nep5Balances = [h \in Hashes |-> NewNEP5Balances]
    /\ bres = NoBalanceOf

\* nep5TokenNative.balanceOf over the balance records nb of the DAO:
\* GetNEP5Balances(h).Trackers[c.hash].Balance
balanceOf(nb, c, h) == nb[h][c]

\* dao.PutNEP5Balances(acc, bs)
PutNEP5Balances(h, bs) ==
    /\ nep5Balances[h] # bs
    /\ nep5Balances' = [nep5Balances EXCEPT ![h] = bs]
    /\ UNCHANGED bres
    /\ UNCHANGED <<tokVars, blkVars, natVars, govVars, stoVars, auxVars, faultVars, dblVars, stgVars, plogVars>>

\* a script calls balanceOf of token c for account h
BalanceOf(c, h) ==
    /\ bres' = [called |-> TRUE, c |-> c, h |-> h, val |-> balanceOf(nep5Balances, c, h)]
    /\ UNCHANGED nep5Balances
    /\ UNCHANGED <<tokVars, blkVars, natVars, govVars, stoVars, auxVars, faultVars, dblVars, stgVars, plogVars>>

\* token operations, writes of balance records and one balanceOf call
BalNext ==
    \/ ~bres.called /\ Next
    \/ /\ ~bres.called
       /\ nep5Balances = [h \in Hashes |-> NewNEP5Balances]
       /\ \E h \in Hashes, bs \in [Tokens -> 0 .. 1] : PutNEP5Balances(h, bs)
    \/ /\ ~bres.called
       /\ \E c \in Tokens, h \in Hashes : BalanceOf(c, h)

(***************************************************************************)
(* The double-spend and double-claim checks of a transaction.              *)
(***************************************************************************)
\* the flags of an output: confirmed, then spent, then claimed
CoinFlags == {{"Confirmed"}, {"Confirmed", "Spent"}, {"Confirmed", "Spent", "Claimed"}}
FlaggedStates == UNION {[1 .. n -> CoinFlags] : n \in 1 .. 2}

NoCheck == [op |-> "none", inputs |-> <<>>, val |-> FALSE]

DblOff == dres = NoCheck

\* dao.IsDoubleClaim
IsDoubleClaim(cs, claims) == checkUsedInputs(cs, claims, "Claimed")

\* a store that holds any unspent-coin records, claimed outputs among them
FlaggedInit ==
    /\ coins \in [PrevHashes -> {NoCoin} \cup {[present |-> TRUE, states |-> st] :
                                                st \in FlaggedStates}]
    /\ anchor = 0
    /\ ublock = <<>>
    /\ ures = "none"

\* dao.IsDoubleSpend(tx) for a transaction with the inputs tx
IsDoubleSpendCall(tx) ==
    /\ dres.op = "none"
    /\ dres' = [op |-> "IsDoubleSpend", inputs |-> tx, val |-> IsDoubleSpend(coins, tx)]
    /\ UNCHANGED <<tokVars, blkVars, natVars, govVars, stoVars, auxVars, faultVars, balVars, stgVars, plogVars>>

\* dao.IsDoubleClaim(claim) for a claim transaction with the claims given
IsDoubleClaimCall(claims) ==
    /\ dres.op = "none"
    /\ dres' = [op |-> "IsDoubleClaim", inputs |-> claims, val |-> IsDoubleClaim(coins, claims)]
    /\ UNCHANGED <<tokVars, blkVars, natVars, govVars, stoVars, auxVars, faultVars, balVars, stgVars, plogVars>>

DblNext ==
    \/ \E tx \in InputLists : IsDoubleSpendCall(tx)
    \/ \E claims \in InputLists : IsDoubleClaimCall(claims)

(***************************************************************************)
(* Storage items of contracts.                                             *)
(***************************************************************************)
STStorage == 112
\* the keys contracts use in their storage
UserKeys == {<<>>, <<0>>}
StorageItems == {"i1", "i2"}
NoStorageItem == "none"

\* util.Uint160.BytesLE: the bytes of the hash in reverse order
BytesLE(h) == [i \in 1 .. Len(h) |-> h[Len(h) + 1 - i]]

\* storage.AppendPrefix
AppendPrefix(prefix, bytes) == <<prefix>> \o bytes

\* a key built from the hash in big-endian order
makeStorageItemKey_bigEndian(scripthash, key) ==
    AppendPrefix(STStorage, scripthash \o key)

\* makeStorageItemKey
makeStorageItemKey(scripthash, key) ==
    AppendPrefix(STStorage, BytesLE(scripthash) \o key)

StorageItemKeys == {AppendPrefix(STStorage, h \o k) : h \in Uint160s, k \in UserKeys}

\* store.Seek(prefix, f): the keys present in the store that start with prefix
Seek(st, prefix) ==
    {k \in DOMAIN st : /\ st[k] # NoStorageItem
                       /\ Len(k) >= Len(prefix)
                       /\ SubSeq(k, 1, Len(prefix)) = prefix}

\* dao.GetStorageItem: nil when the key is missing
GetStorageItem(st, scripthash, key) == st[makeStorageItemKey(scripthash, key)]

\* dao.GetStorageItems: the items found by Seek, under the keys cut after
\* prefix and hash
GetStorageItems(st, hash) ==
    {<<SubSeq(k, 2 + Uint160Size, Len(k)), st[k]>> :
        k \in Seek(st, AppendPrefix(STStorage, BytesLE(hash)))}

StgOff ==
    /\ sstore = [k \in StorageItemKeys |-> NoStorageItem]
    /\ sexpect = [h \in Uint160s, k \in UserKeys |-> NoStorageItem]
    /\ snops = 0

\* dao.PutStorageItem(scripthash, key, si)
PutStorageItem(scripthash, key, si) ==
    /\ snops < MaxStorageOps
    /\ sstore' = [sstore EXCEPT ![makeStorageItemKey(scripthash, key)] = si]
    /\ sexpect' = [sexpect EXCEPT ![scripthash, key] = si]
    /\ snops' = snops + 1
    /\ UNCHANGED <<tokVars, blkVars, natVars, govVars, stoVars, auxVars, faultVars, balVars, dblVars, plogVars>>

\* dao.DeleteStorageItem(scripthash, key)
DeleteStorageItem(scripthash, key) ==
    /\ snops < MaxStorageOps
    /\ sstore' = [sstore EXCEPT ![makeStorageItemKey(scripthash, key)] = NoStorageItem]
    /\ sexpect' = [sexpect EXCEPT ![scripthash, key] = NoStorageItem]
    /\ snops' = snops + 1
    /\ UNCHANGED <<tokVars, blkVars, natVars, govVars, stoVars, auxVars, faultVars, balVars, dblVars, plogVars>>

StgNext ==
    \/ \E h \in Uint160s, k \in UserKeys, si \in StorageItems : PutStorageItem(h, k, si)
    \/ \E h \in Uint160s, k \in UserKeys : DeleteStorageItem(h, k)

(***************************************************************************)
(* Pages of the NEP-5 transfer logs.                                       *)
(***************************************************************************)
LogPageIndexes == 0 .. MaxTransfers
LogPageKeys == {getNEP5TransferLogKey(a, i) : a \in Uint160s, i \in LogPageIndexes}
\* state.NEP5Transfer: the account it is logged for and its number there
Transfers == Uint160s \X (1 .. MaxTransfers)

\* NEP5TransferLog.Size: the number of entries in Raw
LogSize(lg) == Len(lg)

\* NEP5TransferLog.Append: the entry is written after the entries in Raw
LogAppend(lg, tr) == Append(lg, tr)

\* dao.AppendNEP5Transfer over the pages st: a missing page reads as an
\* empty log
AppendNEP5Transfer(st, acc, index, tr) ==
    LET key == getNEP5TransferLogKey(acc, index)
        lg == LogAppend(st[key], tr)
    IN  [full |-> LogSize(lg) >= nep5TransferBatchSize, st |-> [st EXCEPT ![key] = lg]]

NoAppend == [called |-> FALSE, acc |-> <<>>, index |-> 0, tr |-> <<>>,
             before |-> <<>>, full |-> FALSE]

PlogOff ==
    /\ pstore = [k \in LogPageKeys |-> <<>>]
    /\ pnext = [a \in Uint160s |-> 0]
    /\ psent = [a \in Uint160s |-> <<>>]
    /\ pcall = NoAppend

\* step 2f for one transfer of acc: it is appended to the current page of
\* acc, and acc moves to the next page when the page is reported full
LogTransfer(acc) ==
    /\ Len(psent[acc]) < MaxTransfers
    /\ pnext[acc] < MaxTransfers
    /\ LET tr == <<acc, Len(psent[acc]) + 1>>
           r == AppendNEP5Transfer(pstore, acc, pnext[acc], tr)
       IN  /\ pstore' = r.st
           /\ pnext' = [pnext EXCEPT ![acc] = IF r.full THEN @ + 1 ELSE @]
           /\ psent' = [psent EXCEPT ![acc] = Append(@, tr)]
           /\ pcall' = [called |-> TRUE, acc |-> acc, index |-> pnext[acc], tr |-> tr,
                       before |-> pstore[getNEP5TransferLogKey(acc, pnext[acc])],
                       full |-> r.full]
    /\ UNCHANGED <<tokVars, blkVars, natVars, govVars, stoVars, auxVars, faultVars, balVars, dblVars, stgVars>>

PlogNext == \E acc \in Uint160s : LogTransfer(acc)

LateOff == FaultOff /\ BalOff /\ DblOff /\ StgOff /\ PlogOff

Init == TokInit /\ BlkIdle /\ NatOff /\ GovOff /\ StoOff /\ AuxOff /\ LateOff

\* the chain after genesis under faulting transactions
SpecFault == Init /\ [][FaultNext]_vars

FlaggedCoinsInit ==
    /\ TokInit /\ BlkIdle /\ NatOff /\ GovOff /\ StoOff
    /\ FlaggedInit /\ TlogOff /\ ContOff /\ MfstOff /\ IopOff /\ GetOff /\ LateOff

\* one double-spend or double-claim check over any unspent-coin records
SpecDouble == FlaggedCoinsInit /\ [][DblNext]_vars

\* the storage of contracts, from an empty store
SpecStorage == Init /\ [][StgNext]_vars

\* transfers of the accounts logged page by page, from an empty store
SpecPages == Init /\ [][PlogNext]_vars

\* the native tokens with balanceOf
SpecBalance == Init /\ [][BalNext]_vars

\* the native tokens: mint, burn and transfer in interop contexts
Spec == Init /\ [][Next]_vars

BlockInit == TokInit /\ BlkInit /\ NatOff /\ GovOff /\ StoOff /\ AuxOff /\ LateOff

\* the block applier over the layered DAO
SpecBlock == BlockInit /\ [][BlockNext]_vars

NativeInit == TokInit /\ BlkIdle /\ NatInit /\ GovOff /\ StoOff /\ AuxOff /\ LateOff

\* the dispatch of native methods by the VM
SpecNative == NativeInit /\ [][NativeNext]_vars

StartInit == GovInit /\ BlkIdle /\ NatOff /\ StoOff /\ AuxOff /\ LateOff

\* the natives' saved state over restarts of the process
SpecInit == StartInit /\ [][GovNext]_vars

GovernanceInit == TokInit /\ BlkIdle /\ NatOff /\ ElectInit /\ StoOff /\ AuxOff /\ LateOff

\* the governance calls of the NEO native over any validator records
SpecGov == GovernanceInit /\ [][ElectNext]_vars

StoreInit == TokInit /\ LayerInit /\ NatOff /\ GovOff /\ StoOff /\ AuxOff /\ LateOff

\* reads and writes of a DAO stacked on a backend store
SpecStore == StoreInit /\ [][LayerNext]_vars

MultisigInit == TokInit /\ BlkIdle /\ CryptoInit /\ GovOff /\ StoOff /\ AuxOff /\ LateOff

\* one run of the multisig interop on every stack a script can have built
SpecCrypto == MultisigInit /\ [][CryptoNext]_vars

CoinsInit == TokInit /\ BlkIdle /\ NatOff /\ GovOff /\ StoOff /\ UtxoInit /\ TlogOff /\ ContOff /\ MfstOff /\ IopOff /\ GetOff /\ LateOff

ContainerInit ==
    TokInit /\ BlkIdle /\ NatOff /\ GovOff /\ StoOff /\ UtxoOff /\ TlogOff /\ ContInit /\ MfstOff /\ IopOff /\ GetOff /\ LateOff

ManifestInit ==
    TokInit /\ BlkIdle /\ NatOff /\ GovOff /\ StoOff /\ UtxoOff /\ TlogOff /\ ContOff /\ MfstInit /\ IopOff /\ GetOff /\ LateOff

InteropInit ==
    /\ TokInit /\ BlkIdle /\ NatOff /\ GovOff /\ StoOff
    /\ UtxoOff /\ TlogOff /\ ContOff /\ MfstOff /\ IopInit /\ GetOff /\ LateOff

GettersInit ==
    /\ TokInit /\ BlkIdle /\ NatOff /\ GovOff /\ StoOff
    /\ UtxoOff /\ TlogOff /\ ContOff /\ MfstOff /\ IopOff /\ GetInit /\ LateOff

\* the typed getters over any content of the store
SpecGetters == GettersInit /\ [][GetNext]_vars

\* an interop table from its declaration through init to lookups
SpecInterop == InteropInit /\ [][IopNext]_vars

\* the JSON round trip of any manifest
SpecManifest == ManifestInit /\ [][MfstNext]_vars

\* a container of either type under Restrict, Add and the JSON calls
SpecContainer == ContainerInit /\ [][ContNext]_vars

\* transfer logs of the accounts, on an empty store
SpecTlog == Init /\ [][TlogNext]_vars

\* one block over any unspent-coin records
SpecUtxo == CoinsInit /\ [][UtxoNext]_vars

\* the same DAO with Persist, and a store that can fail
SpecPersist == StoreInit /\ [][PersistNext]_vars

(***************************************************************************)
(* Properties of the native tokens.                                        *)
(***************************************************************************)
Balance(acc, c) == IF c = "GAS" THEN acc.gas ELSE acc.neo

SumBalances(accs, c) ==
    LET sum[S \in SUBSET Hashes] ==
            IF S = {} THEN 0
            ELSE LET h == CHOOSE x \in S : TRUE
                 IN  Balance(accs[h], c) + sum[S \ {h}]
    IN  sum[Hashes]

\* the step just taken executed the NEP-5 method transfer
TransferStep == nops' = nops + 1 /\ block' = block /\ last'.op = "transfer"

\* C1: after any sequence of mint, burn and transfer operations the totalSupply
\* of each native token equals the sum of the token's balances over all
\* stored accounts.
C1_TotalSupplyIsSumOfBalances ==
    \A c \in Tokens : totalSupply[c] = SumBalances(accounts, c)

\* C2: after any sequence of mint, burn and transfer operations every stored
\* balance of every account is >= 0 (int64 arithmetic, no negative balance
\* by wrap-around).
C2_BalancesNonNegative ==
    \A h \in Hashes : accounts[h].gas >= 0 /\ accounts[h].neo >= 0

\* C9: transfer with a negative amount fails (the method returns false),
\* changes no account record and no totalSupply, and appends no notification.
C9_NegativeTransferRejected ==
    [][ (TransferStep /\ last'.amount < 0)
        => /\ ret' = "err"
           /\ accounts' = accounts
           /\ writes' = {}
           /\ totalSupply' = totalSupply
           /\ notifications' = notifications ]_vars

C9_Witness ==
    /\ last.op = "transfer" /\ last.amount < 0 /\ last.from # last.to
    /\ ret = "err"
    /\ accounts[last.from].exists /\ Balance(accounts[last.from], last.c) > 0

\* C10: transfer with from = to or amount = 0 (and amount >= 0) succeeds,
\* leaves every balance and every totalSupply unchanged, writes the record
\* of `from` only, reads and writes no other account's record, and (NEO)
\* distributes no gas: no balance height moves, no GAS is minted.
C10_EmptyTransferTouchesOnlyFrom ==
    [][ (TransferStep /\ last'.amount >= 0
            /\ (last'.from = last'.to \/ last'.amount = 0))
        => /\ ret' = "ok"
           /\ totalSupply' = totalSupply
           /\ \A h \in Hashes :
                 /\ accounts'[h].gas = accounts[h].gas
                 /\ accounts'[h].neo = accounts[h].neo
                 /\ accounts'[h].height = accounts[h].height
                 /\ h # last'.from => accounts'[h] = accounts[h]
           /\ writes' = {last'.from}
           /\ reads' = {last'.from}
           /\ \A i \in 1 .. Len(notifications') :
                 i > Len(notifications) => notifications'[i].from # Nil ]_vars

C10_Witness ==
    /\ last.op = "transfer" /\ last.c = "NEO" /\ ret = "ok"
    /\ last.from = last.to /\ last.amount > 0
    /\ block # NoBlock
    /\ accounts[last.from].neo > 0 /\ accounts[last.from].height < block


(***************************************************************************)
(* Properties of the block applier.                                        *)
(***************************************************************************)
\* the step just taken is the call of AddBlock
AddBlockStep == nblocks' = nblocks + 1

\* the step just taken applied an invocation transaction
InvocationStep == txi' = txi + 1 /\ lastTx'.kind = "invocation"

\* what a transaction started on the block DAO d reads under the key k
SeenByNextTx(d, st, k) == DaoGet(newInteropContext(d).dao, st, k)

C4_OnlyNextIndexAccepted ==
    [][ /\ (AddBlockStep /\ cur'.index # height + 1)
            => (outcome' = "rejected" /\ pc' = "idle"
                /\ height' = height /\ store' = store)
        /\ (outcome' = "accepted" /\ pc = "flush" /\ pc' = "idle")
            => (cur.index = height + 1 /\ height' = height + 1)
        /\ (height' # height)
            => (height' = height + 1 /\ outcome' = "accepted") ]_vars

C4_Witness ==
    /\ outcome = "rejected" /\ failedAt = "index"
    /\ height = 1 /\ cur.index = height
    /\ store[SYSCurrentBlock] = Found(IntVal(1))

\* C5: every invocation transaction of a block gets an AppExecResult; on HALT
\* its DAO writes are visible to later transactions and its notifications are
\* recorded; on FAULT none of its writes is visible, the result has state
\* FAULT and no notifications, and the applier goes on with the next
\* transaction.
C5_AppExecResultPerInvocation ==
    [][ InvocationStep =>
        LET sc == lastTx'.script
            aer == DaoGet(dao', store', AerKey(cur.index, txi'))
        IN  /\ aer.present
            /\ aer.val.vmstate = lastTx'.state
            /\ lastTx'.state = "HALT" =>
                  /\ SeenByNextTx(dao', store', sc.key)
                        = (IF sc.del THEN NotFound ELSE Found(IntVal(1)))
                  /\ aer.val.events = <<sc.key[2]>>
            /\ lastTx'.state = "FAULT" =>
                  /\ \A k \in StorageKeys :
                        SeenByNextTx(dao', store', k) = SeenByNextTx(dao, store, k)
                  /\ aer.val.events = <<>>
                  /\ pc' = "txs" ]_vars

C5_Witness ==
    /\ lastTx.kind = "invocation" /\ lastTx.state = "FAULT" /\ lastTx.pos = 2
    /\ pc = "txs"
    /\ DaoGet(dao, store, AerKey(cur.index, 1)) = Found(AerVal("HALT", <<1>>))
    /\ DaoGet(dao, store, AerKey(cur.index, 2)) = Found(AerVal("FAULT", <<>>))
    /\ DaoGet(dao, store, <<"STStorage", 1, 0>>) = Found(IntVal(1))
    /\ ~DaoGet(dao, store, <<"STStorage", 2, 0>>).present

\* C6: for every applied block the OnPersist hook of each registered native
\* is invoked exactly once, with the block's index, after all transactions
\* of the block were applied, and the hooks run in registration order.
C6_HooksOncePerBlockInOrder ==
    (pc = "idle" /\ outcome = "accepted") =>
        hookLog = [i \in 1 .. Len(regOrder) |->
                      [c |-> regOrder[i], index |-> height, txs |-> cur.ntx]]

C6_Witness ==
    /\ pc = "idle" /\ outcome = "accepted"
    /\ regOrder = <<"Test", "NEO", "GAS">>
    /\ cur.ntx = 2 /\ Len(hookLog) = 3

(***************************************************************************)
(* Properties of the native dispatch.                                      *)
(***************************************************************************)
\* the step just taken ran the syscall handler of the native c
SyscallStep(c) == npc = "loaded" /\ npc' # "loaded" /\ inst' = c

\* the stack holds a method name on top of an array of arguments
NameOverArgs(stk) ==
    /\ Len(stk) >= 2
    /\ stk[1].t = "ByteArray"
    /\ stk[2].t = "Array"

\* C7: a method of a native invoked from the native's own script, with the
\* method name on top of the array of arguments, runs exactly the handler
\* registered under that name with the popped arguments and pushes exactly
\* one item, the value the handler returns; a script that does only this
\* ends in HALT with a one-item stack; an unknown method name makes the VM
\* fault and no handler is run.
C7_NativeMethodDispatch ==
    [][ /\ \A c \in Dispatchable :
            (SyscallStep(c) /\ script.hash = NativeHash(c) /\ NameOverArgs(estack))
            => LET name == estack[1].s
                   args == estack[2].a
                   rest == SubSeq(estack, 3, Len(estack))
                   r == CallMethod(c, name, args)
               IN  IF name \in Methods(c)
                   THEN /\ handlerLog' = <<[c |-> c, name |-> name, args |-> args]>>
                        /\ ~r.panic => /\ estack' = <<r.val>> \o rest
                                        /\ vmstate' = "NONE" /\ verr' = ""
                                        /\ npc' = "syscalled"
                   ELSE /\ vmstate' = "FAULT" /\ verr' = "method not found"
                        /\ handlerLog' = <<>>
                        /\ estack' = rest
        /\ (npc = "syscalled" /\ npc' = "done")
            => /\ vmstate' = "HALT"
               /\ estack' = estack
               /\ handlerLog' = handlerLog
               /\ Len(script.stack) = 2 => Len(estack') = 1 ]_vars

C7_Witness ==
    /\ npc = "done" /\ vmstate = "HALT"
    /\ script = [hash |-> NativeHash("Test"),
                 stack |-> <<BytesItem("sum"), ArrayItem(<<1, 2>>)>>]
    /\ inst = "Test"
    /\ estack = <<IntItem(3)>>
    /\ handlerLog = <<[c |-> "Test", name |-> "sum", args |-> <<1, 2>>]>>

\* C8: the syscall of a native run from a script whose hash is not the
\* native's own hash is refused: the handler returns an error (the VM
\* faults), no native method is run, and nothing is popped from or pushed
\* onto the evaluation stack.
C8_ForeignCallerRefused ==
    [][ \A c \in Dispatchable :
            (SyscallStep(c) /\ script.hash # NativeHash(c))
            => /\ verr' = "invalid hash"
               /\ vmstate' = "FAULT"
               /\ npc' = "done"
               /\ handlerLog' = <<>>
               /\ estack' = estack ]_vars

C8_Witness ==
    /\ npc = "done" /\ vmstate = "FAULT" /\ verr = "invalid hash"
    /\ script = [hash |-> "app",
                 stack |-> <<BytesItem("sum"), ArrayItem(<<1, 2>>)>>]
    /\ inst = "Test"
    /\ estack = script.stack

(***************************************************************************)
(* Properties of mint, burn and the notifications.                         *)
(***************************************************************************)
\* the step just taken executed mint / burn
MintStep == nops' = nops + 1 /\ block' = block /\ last'.op = "mint"
BurnStep == nops' = nops + 1 /\ block' = block /\ last'.op = "burn"

OpStep == nops' = nops + 1 /\ block' = block

\* the notifications the step appended
Appended == SubSeq(notifications', Len(notifications) + 1, Len(notifications'))

\* the Transfer notification of the operation itself
OwnTransfer ==
    [ScriptHash |-> last'.c, name |-> "Transfer",
     from |-> last'.from, to |-> last'.to, amount |-> last'.amount]

\* C13: the notification list mirrors the successful token operations: each
\* successful transfer, each mint and each burn with amount > 0 appends
\* exactly one Transfer notification of its token with its (from, to,
\* amount), null origin for mint and null destination for burn; a failed or
\* aborted operation (and a mint or burn of 0) appends none; notifications
\* are only ever appended, in execution order.
C13_NotificationsMirrorOperations ==
    [][ OpStep =>
        /\ Len(notifications') >= Len(notifications)
        /\ SubSeq(notifications', 1, Len(notifications)) = notifications
        /\ (ret' = "ok" /\ (last'.op = "transfer" \/ last'.amount > 0)) =>
              /\ {i \in 1 .. Len(Appended) : Appended[i].ScriptHash = last'.c}
                    = {Len(Appended)}
              /\ Appended[Len(Appended)] = OwnTransfer
        /\ (ret' # "ok" \/ (last'.op # "transfer" /\ last'.amount = 0)) =>
              Appended = <<>> ]_vars

\* the gas claimable for the NEO that h holds before the step, up to `block`
Claimable(h) ==
    CalculateClaimable(accounts[h].neo, accounts[h].height, block, FALSE).amount

\* the accounts whose NEO balance the step changed
NeoChanged == {h \in Hashes : accounts'[h].neo # accounts[h].neo}

SumClaimable(S) ==
    LET sum[T \in SUBSET Hashes] ==
            IF T = {} THEN 0
            ELSE LET h == CHOOSE x \in T : TRUE
                 IN  Claimable(h) + sum[T \ {h}]
    IN  sum[S]

\* C14: when an operation changes the NEO balance of an account by a nonzero
\* amount while a block with index i is processed, the gas claimable for the
\* account's previous NEO balance from its balance-height up to i goes to
\* the account: once the operation has stored the account, its GAS balance
\* is larger by exactly the claimable amount, its balance-height is i, and
\* the GAS totalSupply grew by the same amount.
C14_GasDistributedOnNeoChange ==
    [][ (OpStep /\ last'.c = "NEO" /\ block # NoBlock /\ ret' = "ok") =>
        /\ \A h \in NeoChanged :
              /\ accounts'[h].gas = Wrap(accounts[h].gas + Claimable(h))
              /\ accounts'[h].height = block
        /\ totalSupply'["GAS"] = Wrap(totalSupply["GAS"] + SumClaimable(NeoChanged)) ]_vars

\* Initialize of the native c runs in this step
InitializeOf(c) == c \notin started /\ started' = started \cup {c}

InitialSupply(c) == IF c = "GAS" THEN GasInitialSupply ELSE NeoInitialSupply

\* C15: the initial supply is minted exactly once over restarts. Initialize on
\* a store without the native's state credits the initial supply to the
\* multisig account of the standby validators (threshold floor(N/2)+1), to no
\* other account, and saves totalSupply; Initialize on a store that holds the
\* state mints nothing, changes no account and sets the in-memory totalSupply
\* to the value that was saved; no token's initial supply is minted twice.
C15_InitialSupplyMintedOnce ==
    /\ [][ \A c \in Tokens : InitializeOf(c) =>
             IF ~nativeState[c].present
             THEN /\ Balance(accounts'[StandbyHash], c)
                        = Balance(accounts[StandbyHash], c) + InitialSupply(c)
                  /\ \A d \in Tokens \ {c} :
                        Balance(accounts'[StandbyHash], d) = Balance(accounts[StandbyHash], d)
                  /\ \A h \in Hashes \ {StandbyHash} : accounts'[h] = accounts[h]
                  /\ totalSupply'[c] = InitialSupply(c)
                  /\ nativeState'[c].present
                  /\ savedSupply'[c] = totalSupply'[c]
                  /\ multisig'.vs = standby
                  /\ 2 * multisig'.m > Len(standby)
                  /\ 2 * (multisig'.m - 1) <= Len(standby)
             ELSE /\ accounts' = accounts
                  /\ notifications' = notifications
                  /\ nativeState' = nativeState
                  /\ totalSupply'[c] = savedSupply[c] ]_vars
    /\ [](\A c \in Tokens : minted[c] <= 1)

\* after a restart both natives were loaded from the store, GAS with a saved
\* totalSupply that a later mint had raised above the initial supply
C15_Witness ==
    /\ nstarts = 1
    /\ started = Tokens
    /\ nops = 1
    /\ minted = [c \in Tokens |-> 1]
    /\ totalSupply["GAS"] = GasInitialSupply + 1
    /\ savedSupply["GAS"] = GasInitialSupply + 1

\* registerValidator(pk) runs in this step
RegisterStep(pk) ==
    Callable /\ gcall'.op = "registerValidator" /\ gcall'.pk = pk

VoteStep == Callable /\ gcall'.op = "vote"

\* C17: vote(account, pubkeys) with a valid witness of the account completes
\* and returns true, and the NEO balance of the account has been added to the
\* votes of every validator in pubkeys that the account had not voted for.
C17_VoteCompletes ==
    [][ (VoteStep /\ gcall'.witness) =>
          /\ gcall'.status = "true"
          /\ \A pk \in gcall'.pubs :
                validators'[pk].votes = validators[pk].votes + accounts[gcall'.h].neo ]_vars

\* the committee size getValidators selects: the weighted average of the
\* tallies, raised to the number of standby validators
CommitteeSize ==
    IF GetWeightedAverage(vcount) < Len(standby) THEN Len(standby)
    ELSE GetWeightedAverage(vcount)

StrictlyAscending(out) == \A i \in 1 .. Len(out) - 1 : out[i] < out[i + 1]

\* C18: for every state of the validator records, the tallies and the standby
\* list, the output of getValidators is strictly ascending by public key and
\* has at least as many keys as the selected committee size.
C18_ValidatorsSortedAndEnough ==
    gcall.op = "getValidators" =>
        /\ StrictlyAscending(gcall.out)
        /\ Len(gcall.out) >= CommitteeSize

KeysOf(seq) == {seq[i] : i \in 1 .. Len(seq)}

\* the candidates: the keys that have a validator record
Candidates == {k \in PubKeys : validators[k].exists}

\* a ranks before b: registered first, then more votes, then the lower key
RanksBefore(a, b) ==
    \/ validators[a].registered /\ ~validators[b].registered
    \/ /\ validators[a].registered = validators[b].registered
       /\ validators[a].votes > validators[b].votes
    \/ /\ validators[a].registered = validators[b].registered
       /\ validators[a].votes = validators[b].votes
       /\ a < b

Eligible ==
    {k \in Candidates :
        \/ validators[k].registered /\ validators[k].votes > 0
        \/ k \in KeysOf(standby)}

\* the n eligible candidates of the highest rank
FirstEligible(n) ==
    {k \in Eligible : Cardinality({j \in Eligible : RanksBefore(j, k)}) < n}

\* the first n standby keys, in the order of the list, that are not eligible
\* candidates already
TopUp(n) ==
    {k \in KeysOf(standby) \ Eligible :
        \E i \in 1 .. Len(standby) :
            /\ standby[i] = k
            /\ Cardinality(KeysOf(SubSeq(standby, 1, i - 1)) \ Eligible) < n}

\* C19: getValidators elects by rank. When at least CommitteeSize candidates
\* are eligible the output is the CommitteeSize eligible candidates of the
\* highest rank (registered first, votes descending, key ascending); otherwise
\* it is every eligible candidate, topped up to CommitteeSize with standby keys
\* not yet included; the order in which the store enumerates the records
\* makes no difference.
C19_ValidatorsElectedByRank ==
    gcall.op = "getValidators" =>
        KeysOf(gcall.out) =
            IF Cardinality(Eligible) >= CommitteeSize
            THEN FirstEligible(CommitteeSize)
            ELSE Eligible \cup TopUp(CommitteeSize - Cardinality(Eligible))

\* three eligible candidates for two seats, and the record the store
\* enumerated first was not elected
C19_Witness ==
    /\ gcall.op = "getValidators"
    /\ Cardinality(Eligible) = 3
    /\ Len(gcall.out) = 2
    /\ gcall.enum[1] \notin KeysOf(gcall.out)

\* fewer eligible candidates than seats: a standby key without a record was
\* added, another was left out because the seats were taken
C19_WitnessTopUp ==
    /\ gcall.op = "getValidators"
    /\ Cardinality(Eligible) = 1
    /\ \E k \in KeysOf(standby) \ Candidates : k \in KeysOf(gcall.out)
    /\ \E k \in KeysOf(standby) \ Candidates : k \notin KeysOf(gcall.out)

\* the Put and Delete calls made on k so far
OpsOn(k) == {i \in 1 .. Len(oplog) : oplog[i].k = k}

LatestOn(k) == oplog[CHOOSE i \in OpsOn(k) : \A j \in OpsOn(k) : j <= i]

\* C20: the layered store reads like a single map. After any sequence of Put
\* and Delete calls over any backend, Get(k) returns the value of the latest
\* Put on k when the latest call on k is a Put, reports not-found when it is
\* a Delete (even when the backend holds k), and returns what the backend
\* returns when k was never put or deleted.
C20_LayeredStoreReadsLikeMap ==
    got.op = "get" =>
        IF OpsOn(got.k) = {}
        THEN /\ (got.err = "") = store[got.k].present
             /\ got.err = "" => got.val = store[got.k].val
        ELSE IF LatestOn(got.k).op = "put"
        THEN got.err = "" /\ got.val = LatestOn(got.k).val
        ELSE got.err = "ErrKeyNotFound"

\* a key the backend holds was deleted in the lower DAO and is read through
\* the upper one, after another key was put there: not found
C20_Witness ==
    /\ got.op = "get"
    /\ got.err = "ErrKeyNotFound"
    /\ store[got.k].present
    /\ Len(dao) = 2
    /\ dao[1][got.k].op = "del"
    /\ \E k \in StorageKeys : dao[2][k].op = "put"

\* what the parent of the innermost layer of d returns for k
ParentGet(d, st, k) == DaoGet(SubSeq(d, 1, Len(d) - 1), st, k)

\* a Put or a Delete runs in this step
WriteStep == Len(oplog') = Len(oplog) + 1

\* Persist runs in this step
PersistCall == oplog' = oplog /\ Len(dao') = Len(dao) /\ pres'.op = "persist"

\* C21: overlay changes reach the parent exactly at Persist. A Put or Delete
\* on the overlay changes nothing the parent returns; after a successful
\* Persist the parent returns the put value for every key the overlay had put
\* and not-found for every key it had deleted, the overlay is empty, the count
\* returned is the number of entries, and every Get through the overlay
\* returns what it returned before.
C21_OverlayReachesParentAtPersist ==
    [][ /\ WriteStep =>
             \A k \in Keys : ParentGet(dao', store', k) = ParentGet(dao, store, k)
        /\ (PersistCall /\ pres'.err = "") =>
             LET top == dao[Len(dao)]
             IN  /\ \A k \in Keys :
                       /\ top[k].op = "put" =>
                             ParentGet(dao', store', k) = Found(top[k].val)
                       /\ top[k].op = "del" => ParentGet(dao', store', k) = NotFound
                       /\ DaoGet(dao', store', k) = DaoGet(dao, store, k)
                 /\ dao'[Len(dao')] = EmptyOverlay
                 /\ pres'.n = Cardinality(Entries(top)) ]_vars

\* a Persist of two entries into the store: one key was put and is there, the
\* other was deleted and is gone
C21_Witness ==
    /\ pres = [op |-> "persist", n |-> 2, err |-> ""]
    /\ dao = <<EmptyOverlay>>
    /\ \E k1, k2 \in StorageKeys :
          /\ OpsOn(k1) # {} /\ OpsOn(k2) # {}
          /\ LatestOn(k1).op = "put" /\ store[k1] = Found(LatestOn(k1).val)
          /\ LatestOn(k2).op = "del" /\ store[k2] = NotFound

\* the store a Persist of d that succeeds leaves
AfterPersist(d, st) == Persist(d, st, FALSE, Entries(d[Len(d)])).store

\* C22: when the store returns an error during Persist, the overlay still
\* holds every put and delete entry it held before the call, and a repeated
\* Persist that succeeds leaves the store as a single successful Persist
\* would have left it.
C22_FailedPersistCanBeRetried ==
    [][ (PersistCall /\ pres'.err # "") =>
          /\ dao' = dao
          /\ AfterPersist(dao', store') = AfterPersist(dao, store) ]_vars

\* a Persist of two entries failed after the store had written one of them
C22_Witness ==
    /\ pres.op = "persist" /\ pres.err # ""
    /\ Len(dao) = 1
    /\ Cardinality(Entries(dao[1])) = 2
    /\ \E k1, k2 \in Entries(dao[1]) :
          /\ AfterPersist(dao, store)[k1] = store[k1]
          /\ AfterPersist(dao, store)[k2] # store[k2]

\* the keys and the signatures the script had put on the stack
SigKeys == script.stack[2].a
Sigs == script.stack[3].a

\* every signature, in order, has a key of its own that verifies it, the
\* keys taken in the order of the key list
MatchedInOrder(pkeys, sigs) ==
    \E m \in [1 .. Len(sigs) -> 1 .. Len(pkeys)] :
        /\ \A i \in 1 .. Len(sigs) : Verify(pkeys[m[i]], sigs[i])
        /\ \A i, j \in 1 .. Len(sigs) : i < j => m[i] < m[j]

\* C23: ECDSACheckMultisig with k keys and s signatures returns an error (the
\* VM faults, nothing is pushed) when s > k; otherwise it pushes exactly one
\* boolean, true iff every signature, in order, is verified by a key not yet
\* consumed further along the key list.
C23_MultisigMatchesInOrder ==
    (npc = "done" /\ script.stack[2].t = "Array") =>
        IF Len(Sigs) > Len(SigKeys)
        THEN verr # "" /\ vmstate = "FAULT" /\ estack = <<>>
        ELSE /\ verr = "" /\ vmstate = "NONE"
             /\ estack = <<BoolItem(MatchedInOrder(SigKeys, Sigs))>>

\* three keys, the signatures of the first and the third in that order: true
C23_Witness ==
    /\ npc = "done"
    /\ script.stack[2].t = "Array"
    /\ SigKeys = <<1, 2, 3>>
    /\ Sigs = <<1, 3>>
    /\ estack = <<BoolItem(TRUE)>>

\* the same signatures in reverse order: false
C23_WitnessReversed ==
    /\ npc = "done"
    /\ script.stack[2].t = "Array"
    /\ SigKeys = <<1, 2, 3>>
    /\ Sigs = <<3, 1>>
    /\ estack = <<BoolItem(FALSE)>>

\* two transactions of the block reference the same input
SharedInput(b) ==
    \E i, j \in 1 .. Len(b) :
        /\ i # j
        /\ \E m \in 1 .. Len(b[i]), n \in 1 .. Len(b[j]) : b[i][m] = b[j][n]

\* C24: a block in which two transactions reference the same (previous hash,
\* previous index) input is rejected as a whole: the current-block anchor and
\* every unspent-coin record of the store are as before the block.
C24_DoubleSpendBlockRejected ==
    [][ (ures = "none" /\ ures' # "none" /\ SharedInput(ublock')) =>
          /\ ures' = "rejected"
          /\ anchor' = anchor
          /\ coins' = coins ]_vars

\* a rejected block whose two transactions spend the same unspent output,
\* each of them spendable by itself
C24_Witness ==
    /\ ures = "rejected"
    /\ Len(ublock) = 2
    /\ SharedInput(ublock)
    /\ ~IsDoubleSpend(coins, ublock[1])
    /\ ~IsDoubleSpend(coins, ublock[2])
    /\ anchor = 0

\* C25: the key of a transfer-log page is the prefix, all bytes of the account
\* hash and the little-endian page index, and storing a page for one account
\* changes the page read for no other account.
C25_TransferLogKeyPerAccount ==
    [][ tcall'.op = "put" =>
          /\ tcall'.key = getNEP5TransferLogKey_afterHash(tcall'.acc, tcall'.index)
          /\ \A acc \in Uint160s \ {tcall'.acc} : \A index \in PageIndexes :
                GetNEP5TransferLog(tstore', acc, index) =
                GetNEP5TransferLog(tstore, acc, index) ]_vars

\* x was added after the most recent Restrict (after NewContainer, if none)
AddedSinceRestrict(x) ==
    \E i \in 1 .. Len(chist) :
        /\ chist[i] = x
        /\ \A j \in i + 1 .. Len(chist) : chist[j] # "restrict"

\* C26: after any sequence of Restrict and Add calls on a new container,
\* IsWildcard is true iff neither was ever called, and Contains(x) is true iff
\* the container is wildcard or x was added after the most recent Restrict.
C26_ContainerWildcardAndContains ==
    /\ IsWildcard(cont) <=> chist = <<>>
    /\ \A x \in ItemsOf(cont.Type) :
          Container_Contains(cont, x) <=> (IsWildcard(cont) \/ AddedSinceRestrict(x))

\* a value added, then Restrict, then another value added
C26_Witness ==
    /\ Len(chist) = 3
    /\ chist[2] = "restrict"
    /\ chist[1] # chist[3]
    /\ ~Container_Contains(cont, chist[1])
    /\ Container_Contains(cont, chist[3])

\* a value added to a wildcard container: the other value is not contained
C26_WitnessNarrowed ==
    /\ Len(chist) = 1
    /\ chist[1] # "restrict"
    /\ \E x \in ItemsOf(cont.Type) : ~Container_Contains(cont, x)

\* an array with an element that is not of the container's type
ForeignElement(t, data) ==
    /\ data.kind = "array"
    /\ \E i \in 1 .. Len(data.items) :
          \/ data.items[i].kind # "string"
          \/ t = "Uint160Container" /\ ~IsUint160Hex(data.items[i].s)

\* C27: unmarshalling the output of MarshalJSON into a new container of the
\* same type gives an equal container, the wildcard is written as "*" and
\* nothing else is, and input with an element not of the container's type is
\* an error.
C27_ContainerJsonRoundTrip ==
    /\ cres.op = "roundtrip" =>
          /\ ~cres.err
          /\ cres.c = cont
          /\ cres.data = JString("*") <=> IsWildcard(cont)
    /\ (cres.op = "input" /\ ForeignElement(cont.Type, cres.data)) => cres.err

\* the round trip of a container that holds two values
C27_Witness ==
    /\ cres.op = "roundtrip"
    /\ cont.Type = "Uint160Container"
    /\ Len(cont.Value.items) = 2
    /\ cres.c = cont

\* the round trips of the wildcard and of the empty container
C27_WitnessWildcard ==
    cres.op = "roundtrip" /\ IsWildcard(cont) /\ cres.data = JString("*")

C27_WitnessEmpty ==
    cres.op = "roundtrip" /\ cont.Value = Slice(<<>>) /\ cres.data = JArray(<<>>)

\* a rejected input
C27_WitnessRejected ==
    cres.op = "input" /\ ForeignElement(cont.Type, cres.data) /\ cres.err

\* C28: unmarshalling the JSON of a manifest, with any feature flags, trusts,
\* safe methods and permissions, into a new manifest gives an equal manifest.
C28_ManifestJsonRoundTrip ==
    mres.op = "roundtrip" => (~mres.err /\ mres.m = mfst)

\* the entries of the table with the id, found by scanning
Scan(id) == {i \in 1 .. Len(itable) : itable[i].ID = id}

\* C29: after initialisation the table is sorted ascending by id, and the
\* getter returns the handler and price of the entry with the id when the
\* table has one, and nil for every other id.
C29_LookupEqualsScan ==
    istage = "initialised" =>
        /\ \A i, j \in 1 .. Len(itable) : i < j => itable[i].ID <= itable[j].ID
        /\ \A i \in 1 .. Len(itable) : itable[i].ID = nameid[itable[i].Name]
        /\ ires.op = "lookup" =>
              IF Scan(ires.id) = {} THEN ~ires.found /\ ires.Func = "nil"
              ELSE /\ ires.found
                   /\ \E i \in Scan(ires.id) :
                         ires.Func = itable[i].Func /\ ires.Price = itable[i].Price

\* a lookup that finds the last entry of a table declared in another order
C29_Witness ==
    /\ ires.op = "lookup"
    /\ ires.found
    /\ Len(itable) = 3
    /\ itable[3].ID = ires.id
    /\ nameid["n1"] > nameid["n2"]
    /\ nameid["n2"] > nameid["n3"]

\* a lookup of an id between two ids of the table
C29_WitnessNil ==
    /\ ires.op = "lookup"
    /\ ~ires.found
    /\ \E i, j \in 1 .. Len(itable) : itable[i].ID < ires.id /\ ires.id < itable[j].ID

\* the getters that answer a missing key with a default, and the default
OrNewGetters ==
    {"GetAccountStateOrNew", "GetNEP5Balances", "GetNEP5TransferLog",
     "GetValidatorStateOrNew", "GetValidatorsCount"}
TypedDefault(g) ==
    CASE g = "GetAccountStateOrNew" -> "NewAccount"
      [] g = "GetNEP5Balances" -> "NewNEP5Balances"
      [] g = "GetNEP5TransferLog" -> "NewNEP5TransferLog"
      [] g = "GetValidatorStateOrNew" -> "Validator{PublicKey}"
      [] OTHER -> "ValidatorsCount{}"
\* the store answered not-found
KeyMissing == ~eres.serr /\ eres.raw = "missing"
\* the store failed, or the bytes of an entity that is decoded do not decode
OtherError ==
    \/ eres.serr
    \/ eres.raw = "corrupt" /\ eres.getter # "GetNEP5TransferLog"

C30_WitnessDecodeError ==
    eres.getter = "GetNEP5Balances" /\ eres.err = "ErrDecode"

\* the not-found error of a plain getter
C30_WitnessPlain ==
    eres.getter = "GetUnspentCoinState" /\ eres.err = "ErrKeyNotFound"

(***************************************************************************)
(* Properties of transfer between two accounts.                            *)
(***************************************************************************)
\* C31: a successful transfer(from, to, amount) with from # to and amount > 0
\* lowers the balance of from by exactly amount, raises the balance of to by
\* exactly amount and leaves the token's totalSupply and the balance of every
\* other account unchanged.
C31_TransferMovesAmount ==
    [][ (TransferStep /\ ret' = "ok" /\ last'.from # last'.to /\ last'.amount > 0) =>
        LET c == last'.c
            a == last'.amount
        IN  /\ Balance(accounts'[last'.from], c) =
                  Wrap(Balance(accounts[last'.from], c) - a)
            /\ Balance(accounts'[last'.to], c) =
                  Wrap(Balance(accounts[last'.to], c) + a)
            /\ totalSupply'[c] = totalSupply[c]
            /\ \A h \in Hashes \ {last'.from, last'.to} :
                  Balance(accounts'[h], c) = Balance(accounts[h], c) ]_vars

\* C32: transfer(from, to, amount) with from # to and amount above the
\* balance of from fails (the method returns false) and leaves both balances
\* unchanged.
C32_InsufficientFundsRejected ==
    [][ (TransferStep /\ last'.from # last'.to
            /\ last'.amount > Balance(accounts[last'.from], last'.c)) =>
        /\ ret' = "err"
        /\ Balance(accounts'[last'.from], last'.c) = Balance(accounts[last'.from], last'.c)
        /\ Balance(accounts'[last'.to], last'.c) = Balance(accounts[last'.to], last'.c) ]_vars

\* C33: when transactions that minted or burned a native token (directly or
\* through the gas distribution of NEO) fault and their DAO layers are
\* discarded, the totalSupply that OnPersist saves afterwards is the value
\* from before them.
C33_SavedSupplyFollowsDao ==
    faulted.pending =>
        \A c \in Tokens : nativeState[c].data = serializeState(faulted.supply[c])

\* C34: transfer is all-or-nothing in its DAO layer: whenever it returns an
\* error, no account record, no totalSupply and no notification differs from
\* before the call.
C34_TransferAllOrNothing ==
    [][ (TransferStep /\ ret' = "err") =>
        /\ accounts' = accounts
        /\ totalSupply' = totalSupply
        /\ notifications' = notifications ]_vars

\* C35: balanceOf(h) returns the balance that mint, burn and transfer
\* maintain: called directly after one of them changed the balance of h in
\* the same DAO, it returns the new balance.
C35_BalanceOfFollowsOperations ==
    [][ (/\ bres'.called /\ ~bres.called
         /\ last.op \in {"mint", "burn", "transfer"} /\ ret = "ok"
         /\ last.amount > 0 /\ last.from # last.to
         /\ bres'.c = last.c /\ bres'.h \in {last.from, last.to})
        => bres'.val = Balance(accounts[bres'.h], bres'.c) ]_vars

\* C36: after registerValidator(pk) succeeds for a key without a record,
\* the stored validator record has its registration flag set.
C36_RegisteredFlagSet ==
    [][ \A pk \in PubKeys :
          (RegisterStep(pk) /\ ~validators[pk].exists /\ gcall'.status = "true")
          => validators'[pk].exists /\ validators'[pk].registered ]_vars

\* C37: GetAccountStateOrNew(h) persists the account it creates: after the
\* call for an absent account, GetAccountState(h) on the same DAO finds it.
C37_NewAccountPersisted ==
    (eres.getter = "GetAccountStateOrNew" /\ eres.raw = "missing" /\ eres.err = "") =>
        dao_GetAccountState(estore["Account"], FALSE).err = ""

\* an input of the list that is used: its previous transaction has no
\* unspent-coin record, or its index is not below the number of recorded
\* output states, or its output state carries the flag
UsedInput(inputs, flag) ==
    \E i \in 1 .. Len(inputs) :
        LET rec == coins[inputs[i][1]]
        IN  \/ ~rec.present
            \/ inputs[i][2] >= Len(rec.states)
            \/ flag \in rec.states[inputs[i][2] + 1]

\* C38: IsDoubleSpend(tx) is true exactly when tx has an input that is used
\* with respect to the spent flag, false for a transaction without inputs;
\* IsDoubleClaim is the same over the claims and the claimed flag.
C38_DoubleSpendIffUsedInput ==
    /\ dres.op = "IsDoubleSpend" => (dres.val <=> UsedInput(dres.inputs, "Spent"))
    /\ dres.op = "IsDoubleClaim" => (dres.val <=> UsedInput(dres.inputs, "Claimed"))
    /\ (dres.op # "none" /\ dres.inputs = <<>>) => ~dres.val

\* a transaction whose second input of a previous transaction is spent while
\* its first is not
C38_Witness ==
    /\ dres.op = "IsDoubleSpend"
    /\ dres.val
    /\ Len(dres.inputs) = 2
    /\ dres.inputs[1][1] = dres.inputs[2][1]
    /\ ~UsedInput(<<dres.inputs[1]>>, "Spent")
    /\ UsedInput(<<dres.inputs[2]>>, "Spent")

\* a claim of an output that is spent and not yet claimed
C38_WitnessClaim ==
    /\ dres.op = "IsDoubleClaim"
    /\ ~dres.val
    /\ Len(dres.inputs) > 0
    /\ UsedInput(dres.inputs, "Spent")

\* an input whose index is beyond the recorded outputs
C38_WitnessIndex ==
    /\ dres.op = "IsDoubleSpend"
    /\ dres.val
    /\ \E i \in 1 .. Len(dres.inputs) :
          /\ coins[dres.inputs[i][1]].present
          /\ dres.inputs[i][2] >= Len(coins[dres.inputs[i][1]].states)

\* C39: contract storage is isolated per script hash: GetStorageItems(h) is
\* exactly the user keys last put under h and not deleted since, each with
\* its last put item; GetStorageItem(h, k) agrees with it; a write under one
\* script hash changes what is read under no other.
C39_StorageIsolatedPerScriptHash ==
    /\ \A h \in Uint160s :
          /\ GetStorageItems(sstore, h) =
                {<<k, sexpect[h, k]>> : k \in {u \in UserKeys : sexpect[h, u] # NoStorageItem}}
          /\ \A k \in UserKeys : GetStorageItem(sstore, h, k) = sexpect[h, k]

\* two script hashes that are each other's byte reversal hold different
\* items under the same user key
C39_Witness ==
    /\ snops = MaxStorageOps
    /\ \E h \in Uint160s :
          /\ BytesLE(h) # h
          /\ sexpect[h, <<0>>] = "i1"
          /\ sexpect[BytesLE(h), <<0>>] = "i2"
          /\ GetStorageItems(sstore, h) = {<<(<<0>>), "i1">>}

\* the entries of account a over its pages, in the order of the pages
LoggedFor(a) ==
    LET all[i \in -1 .. pnext[a]] ==
            IF i = -1 THEN <<>> ELSE all[i - 1] \o pstore[getNEP5TransferLogKey(a, i)]
    IN  SelectSeq(all[pnext[a]], LAMBDA tr : tr[1] = a)

\* C40: AppendNEP5Transfer stores the page with the transfer appended last
\* and returns true exactly when the page then holds a full batch; an account
\* that moves to the next page whenever true is returned has no page with
\* more entries than a batch, and its transfers are all logged, in order.
C40_PagesHoldAtMostOneBatch ==
    /\ pcall.called =>
          LET lg == pstore[getNEP5TransferLogKey(pcall.acc, pcall.index)]
          IN  /\ lg = Append(pcall.before, pcall.tr)
              /\ pcall.full <=> Len(lg) >= nep5TransferBatchSize
    /\ \A k \in LogPageKeys : Len(pstore[k]) <= nep5TransferBatchSize
    /\ \A a \in Uint160s : LoggedFor(a) = psent[a]

====
